---- MODULE Spec2Model ----
(***************************************************************************)
(* Google Flow Automation Pro.                                             *)
(*                                                                         *)
(* Two units of the extension are modelled over one set of variables:      *)
(*   - the background service worker (the workflow coordinator),           *)
(*     src/icons/generate_icons.js lines 225-775: specification Spec       *)
(*     (the control messages and the dispatch loop), FairSpec, which adds  *)
(*     the fairness of the interval timer and of the awaited browser       *)
(*     calls, and SignalSpec (one run under every completion and failure   *)
(*     signal);                                                            *)
(*   - the popup script (the prompt registry and the timers of the UI),    *)
(*     src/content/content.js lines 560-1422: specification PopupSpec      *)
(*     (registry and controls) and TimerSpec (controls under the clock).   *)
(* Each unit is an open system: the messages it receives are inputs drawn  *)
(* from small sets.  A handler runs atomically up to its first await that  *)
(* leaves the service worker (tabs.query, tabs.sendMessage, a download);   *)
(* what follows the await is a separate action.                            *)
(***************************************************************************)
EXTENDS Integers, Sequences, FiniteSets, TLC

(***************************************************************************)
(* Bounds of the model.                                                    *)
(***************************************************************************)
MaxPrompts == 2
\* the longest registry a START_WORKFLOW / UPDATE_PROMPTS message carries
MaxInflight == 2
\* SUBMIT_PROMPT sends awaiting their response at one time
MaxAwaiting == 1
\* START/RESUME handlers suspended in their awaits at one time
MaxUrls == 2
\* the most image urls one IMAGE_GENERATED message carries
SignalPrompts == 1
\* the length of the registry in the specification of the completion signals
MaxRegistry == 3
\* the longest registry of the popup
MaxBatch == 2
\* the most prompts one addPrompts call appends
TimerPrompts == 1
\* the length of the registry in the specification of the popup's timers
MaxClock == 6
MaxMonitors == 2
\* the clock of the popup advances this many times

(***************************************************************************)
(* Constants of the program.                                               *)
(***************************************************************************)
MsPerSecond == 1000
NoStartTime == 0
\* state.workflow.startTime is null
SecondsPerMinute == 60
SecondsPerHour == 3600
PercentFull == 100
ExpectedCount == 2
IntervalSeconds == 2

\* the clock advances by half seconds, from a time well after the epoch
ClockStep == MsPerSecond \div 2
ClockStart == (MaxClock + 1) * MsPerSecond

(***************************************************************************)
(* Values.                                                                 *)
(***************************************************************************)
NoError == "none"
Reasons == {"r1", "r2"}
NoImages == "No images generated"
\* settings.downloadFolder: of the worker at first, of the popup at first, and one
\* the user chose
DefaultFolder == "FlowGenerations"
NoFolder == ""
Folders == {NoFolder, "Art"}
PromptIds == 1..MaxPrompts

\* What chrome.storage gives back for a Set and for a Map it was asked to keep: a
\* plain object {}, which has none of their methods.  0 is no prompt id.
PlainObject == {0}
PlainMap == [i \in {0} |-> [total |-> 0, completed |-> 0]]

\* One prompt item as the popup creates it (no error field yet).
NewItem(i, s) == [id |-> i, status |-> s, error |-> NoError]

\* n new items as the popup's addPrompts makes them, the first with id first + 1
FreshItems(first, n) == [k \in 1..n |-> NewItem(first + k, "pending")]

\* The popup's copy of a registry: the same items and statuses, without the error
\* field, which only the worker sets.
MirrorOf(ps) == [k \in 1..Len(ps) |-> NewItem(ps[k].id, ps[k].status)]

\* The popup's copy after its resetWorkflow: every item pending again.
ResetOf(ps) == [k \in 1..Len(ps) |-> NewItem(ps[k].id, "pending")]

\* The registries a START_WORKFLOW can carry (handleRun refuses an empty one).
StartLists(ps) == IF Len(ps) = 0 THEN {} ELSE {MirrorOf(ps), ResetOf(ps)}

\* The registries an UPDATE_PROMPTS can carry: addPrompts appended n items.
UpdateLists(ps) == {MirrorOf(ps) \o FreshItems(Len(ps), n) : n \in 1..(MaxPrompts - Len(ps))}

(***************************************************************************)
(* State of the background service worker.                                 *)
(***************************************************************************)
VARIABLES
  prompts,           \* workflowState.prompts: sequence of items
  isRunning,         \* workflowState.isRunning
  isPaused,          \* workflowState.isPaused
  currentIndex,      \* workflowState.currentIndex (0-based, as in the code)
  processedPrompts,  \* workflowState.processedPrompts: set of ids
  pendingDownloads,  \* workflowState.pendingDownloads: id -> total, completed
  workflowInterval,  \* TRUE: an interval timer is armed; FALSE: null
  inflight,          \* processNextPrompt calls suspended at await sendMessage
  awaiting,          \* startWorkflow/resumeWorkflow calls suspended at their awaits
  downloads,         \* id -> browser downloads started and not yet finished
  downloadFolder,    \* workflowState.settings.downloadFolder
  stored,            \* chrome.storage.local: what the last saveState() wrote
  lastOp,            \* the handler that ran last, with its argument
  sent               \* the messages that handler sent

coordVars == <<prompts, isRunning, isPaused, currentIndex, processedPrompts,
               pendingDownloads, workflowInterval, inflight, awaiting,
               downloads, downloadFolder, stored, lastOp, sent>>

(***************************************************************************)
(* State of the popup.                                                     *)
(***************************************************************************)
VARIABLES
  pPrompts,          \* state.prompts
  wfStatus,          \* state.workflow.status
  wfCurrentIndex,    \* state.workflow.currentIndex
  startTime,         \* state.workflow.startTime (NoStartTime: null)
  elapsedSeconds,    \* state.workflow.elapsedSeconds
  timerInterval,     \* TRUE: the 1 s display timer is armed
  elapsedShown,      \* elements.elapsedTime.textContent
  remainingShown,    \* elements.remainingTime.textContent
  progressShown,     \* elements.progressPercentage.textContent, without the %
  modalOpen,         \* the project modal is displayed
  initPending,       \* the 3 s timeout of startWorkflow(true) is pending
  now,               \* Date.now()
  pausedAt,          \* while paused: the time of the handlePause (history)
  pLastOp,           \* the popup handler that ran last; for a resume out of a
                     \* pause, with the time spent paused
  pSent              \* the messages that handler sent to the background

popupVars == <<pPrompts, wfStatus, wfCurrentIndex, startTime, elapsedSeconds,
               timerInterval, elapsedShown, remainingShown, progressShown, modalOpen, initPending, now, pausedAt,
               pLastOp, pSent>>

(***************************************************************************)
(* State of the content script.                                            *)
(***************************************************************************)
VARIABLES
  currentPrompt,     \* state.currentPrompt: the id of the prompt, 0 for null
  detectedImages,    \* state.detectedImages.size
  lastImageCount,    \* state.lastImageCount
  pageImages,        \* the generated images the page shows (getAllImages().length)
  submitting,        \* the ids of the prompts whose submitPrompt is suspended in an await
  observing,         \* state.observer.observe(document.body, ...) has been called
  blobsHandled,      \* id -> DOWNLOAD_BLOB messages handled for the prompt (history)
  notified,          \* id -> IMAGE_GENERATED and GENERATION_FAILED messages sent for the
                     \* prompt since its last SUBMIT_PROMPT (history)
  monitors,          \* the pending 120 s timeouts of startImageMonitoring, oldest
                     \* first, each with the images detected while its prompt was
                     \* the current one (history)
  cLastOp,           \* the content-script handler that ran last (history)
  cSent              \* the messages that handler sent to the background

contentVars == <<currentPrompt, detectedImages, lastImageCount, pageImages, submitting,
                 observing, blobsHandled, notified, monitors, cLastOp, cSent>>

vars == <<coordVars, popupVars, contentVars>>

(***************************************************************************)
(* Messages.                                                               *)
(***************************************************************************)
Msg(t, i, x, e) == [type |-> t, id |-> i, idx |-> x, err |-> e]
Op(o, i) == [op |-> o, id |-> i]

\* the types of the messages of a list
SentTypes(msgs) == {msgs[k].type : k \in 1..Len(msgs)}

\* The content script reports on a prompt only after it was handed the prompt: a
\* SUBMIT_PROMPT for the id is in flight, or the item has left 'pending'.
Dispatched(ps, fl, pid) ==
  \/ \E k \in 1..Len(fl) : fl[k].id = pid
  \/ \E k \in 1..Len(ps) : ps[k].id = pid /\ ps[k].status # "pending"

(***************************************************************************)
(* Helpers of the coordinator.                                             *)
(***************************************************************************)
\* prompts.find(p => p.id === promptId): the first position holding the id, 0 if none
FindById(ps, pid) ==
  IF \E k \in 1..Len(ps) : ps[k].id = pid
    THEN CHOOSE k \in 1..Len(ps) :
           ps[k].id = pid /\ \A j \in 1..(k - 1) : ps[j].id # pid
    ELSE 0

IsTerminal(s) == s = "completed" \/ s = "failed"

\* a completion test that is satisfied by one terminal item
SomeDone(ps) == \E k \in 1..Len(ps) : IsTerminal(ps[k].status)

\* prompts.every(p => p.status === 'completed' || p.status === 'failed')
AllDone(ps) == \A k \in 1..Len(ps) : IsTerminal(ps[k].status)

\* the findIndex predicate of processNextPrompt, at 0-based index i
IsCandidate(ps, cur, proc, i) ==
  /\ i >= cur
  /\ ps[i + 1].status = "pending"
  /\ ps[i + 1].id \notin proc

\* saveState(): chrome.storage.local.set({ workflowState }).  The storage keeps
\* JSON-like values, so the Set and the Map are stored as plain objects.
SavedState ==
  [stored |-> TRUE, prompts |-> prompts, currentIndex |-> currentIndex,
   isRunning |-> isRunning, isPaused |-> isPaused, downloadFolder |-> downloadFolder,
   processedPrompts |-> PlainObject, pendingDownloads |-> PlainMap]

\* the async functions suspended before startWorkflowLoop
PendingLoops(aw) == Cardinality({k \in 1..Len(aw) : aw[k] # "load"})

\* prompts.findIndex(...): the lowest 0-based index that qualifies, -1 if none
FindPendingIndex(ps, cur, proc) ==
  IF \E i \in 0..(Len(ps) - 1) : IsCandidate(ps, cur, proc, i)
    THEN CHOOSE i \in 0..(Len(ps) - 1) :
           /\ IsCandidate(ps, cur, proc, i)
           /\ \A j \in 0..(i - 1) : ~IsCandidate(ps, cur, proc, j)
    ELSE -1

\* a guard that lets every call through
NoRunGuard(running, paused) == TRUE

\* the guard of processNextPrompt: it returns at once unless this holds
RunGuard(running, paused) == running /\ ~paused

\* the condition of the interval callback
IntervalGuard(running, paused) == running /\ ~paused

\* a marking that forgets the start index
MarkTerminalOnly(ps, startIndex) ==
  {ps[k].id : k \in {j \in 1..Len(ps) : IsTerminal(ps[j].status)}}

\* the ids startWorkflow marks as processed
MarkProcessed(ps, startIndex) ==
  {ps[k].id : k \in {j \in 1..Len(ps) :
                       (j - 1) < startIndex \/ IsTerminal(ps[j].status)}}

\* a new array replaces workflowState.prompts: the items captured by suspended
\* processNextPrompt calls are no longer the items of the registry
MarkStale(fl) == [k \in 1..Len(fl) |-> [fl[k] EXCEPT !.stale = TRUE]]

RemoveAt(s, k) == [j \in 1..(Len(s) - 1) |-> IF j < k THEN s[j] ELSE s[j + 1]]

(***************************************************************************)
(* Status changes made by the completion and failure handlers.  Each gives *)
(* the registry after the call and the messages the call sends.            *)
(***************************************************************************)
\* a failure handler that drops the signal unless the workflow is running
FailedWhileRunningOnly(ps, pid, err) ==
  LET k == FindById(ps, pid) IN
  IF k = 0 \/ ~isRunning
    THEN [prompts |-> ps, sent |-> <<>>]
    ELSE [prompts |-> [ps EXCEPT ![k].status = "failed", ![k].error = err],
          sent |-> <<Msg("PROMPT_FAILED", pid, 0, err)>>]

\* handleGenerationFailed(promptId, error)
handleGenerationFailed(ps, pid, err) ==
  LET k == FindById(ps, pid) IN
  IF k = 0
    THEN [prompts |-> ps, sent |-> <<>>]
    ELSE [prompts |-> [ps EXCEPT ![k].status = "failed", ![k].error = err],
          sent |-> <<Msg("PROMPT_FAILED", pid, 0, err)>>]

\* handleDownloadComplete(promptId)
handleDownloadComplete(ps, pid) ==
  LET k == FindById(ps, pid) IN
  IF k = 0
    THEN [prompts |-> ps, sent |-> <<>>]
    ELSE [prompts |-> [ps EXCEPT ![k].status = "completed"],
          sent |-> <<Msg("PROMPT_COMPLETED", pid, 0, NoError)>>]

\* done with the first confirmed download
AnyDownloadDone(entry) == entry.completed >= 1

\* pending.completed >= pending.total
DownloadsDone(entry) == entry.completed >= entry.total

\* checkDownloadComplete(promptId): registry, pendingDownloads and messages after it
checkDownloadComplete(ps, pd, pid) ==
  IF pid \notin DOMAIN pd
    THEN [prompts |-> ps, pending |-> pd, sent |-> <<>>]
    ELSE LET entry == [pd[pid] EXCEPT !.completed = @ + 1] IN
         IF DownloadsDone(entry)
           THEN LET r == handleDownloadComplete(ps, pid) IN
                [prompts |-> r.prompts,
                 pending |-> [i \in (DOMAIN pd) \ {pid} |-> pd[i]],
                 sent |-> r.sent]
           ELSE [prompts |-> ps,
                 pending |-> [pd EXCEPT ![pid] = entry],
                 sent |-> <<>>]

(***************************************************************************)
(* The dispatch step: processNextPrompt up to its await, and               *)
(* workflowCompleted.                                                      *)
(***************************************************************************)
\* the findIndex callback reaches processedPrompts.has(p.id) while processedPrompts
\* is a plain object: a TypeError ends the call of processNextPrompt
HasThrows(ps, cur, proc) ==
  /\ proc = PlainObject
  /\ \E i \in 0..(Len(ps) - 1) : i >= cur /\ ps[i + 1].status = "pending"

PNPIndex == FindPendingIndex(prompts, currentIndex, processedPrompts)

\* what one call of processNextPrompt does: return at the guard, end with a
\* TypeError, complete the workflow, wait for items in flight, or dispatch the
\* item found
PNPKind ==
  IF ~RunGuard(isRunning, isPaused) THEN "return"
  ELSE IF HasThrows(prompts, currentIndex, processedPrompts) THEN "throw"
  ELSE IF PNPIndex = -1
         THEN (IF AllDone(prompts) THEN "complete" ELSE "wait")
         ELSE "dispatch"

\* workflowCompleted(): the flags and the timer after it
workflowCompleted == [isRunning |-> FALSE, isPaused |-> FALSE, workflowInterval |-> FALSE]

\* processNextPrompt() up to the await of tabs.sendMessage.  arm: the caller is
\* startWorkflowLoop, which arms a new interval after the call returns.
processNextPrompt(arm) ==
  LET kind == PNPKind
      p == PNPIndex
  IN
  /\ kind = "dispatch" => Len(inflight) < MaxInflight
  /\ isRunning' = IF kind = "complete" THEN workflowCompleted.isRunning ELSE isRunning
  /\ isPaused' = IF kind = "complete" THEN workflowCompleted.isPaused ELSE isPaused
  /\ workflowInterval' =
       IF arm THEN TRUE
       ELSE IF kind = "complete" THEN workflowCompleted.workflowInterval
       ELSE workflowInterval
  /\ currentIndex' = IF kind = "dispatch" THEN p ELSE currentIndex
  /\ inflight' =
       IF kind = "dispatch"
         THEN Append(inflight, [id |-> prompts[p + 1].id, idx |-> p, stale |-> FALSE])
         ELSE inflight
  /\ sent' =
       IF kind = "dispatch" THEN <<Msg("SUBMIT_PROMPT", prompts[p + 1].id, p, NoError)>>
       ELSE IF kind = "complete" THEN <<Msg("WORKFLOW_COMPLETED", 0, 0, NoError)>>
       ELSE <<>>
  /\ UNCHANGED <<prompts, processedPrompts, pendingDownloads, downloads>>

\* the setInterval callback of startWorkflowLoop fires
timerTick ==
  /\ workflowInterval
  /\ lastOp' = Op("tick", 0)
  /\ IF IntervalGuard(isRunning, isPaused)
       THEN processNextPrompt(FALSE)
       ELSE /\ sent' = <<>>
            /\ UNCHANGED <<prompts, isRunning, isPaused, currentIndex, processedPrompts,
                           pendingDownloads, workflowInterval, inflight, downloads>>
  /\ UNCHANGED <<awaiting, downloadFolder, popupVars, contentVars>>
  /\ stored' = IF IntervalGuard(isRunning, isPaused) /\ PNPKind = "complete"
               THEN SavedState' ELSE stored

\* the awaited tabs.sendMessage of processNextPrompt resolves: the content script
\* answered the SUBMIT_PROMPT
submitResolved(k) ==
  LET f == inflight[k] IN
  /\ IF processedPrompts = PlainObject
       THEN \* processedPrompts.add throws, the catch block reports the error
            /\ sent' = <<Msg("ERROR", f.id, f.idx + 1, NoError)>>
            /\ UNCHANGED <<prompts, processedPrompts>>
       ELSE /\ processedPrompts' = processedPrompts \cup {f.id}
            /\ sent' = <<Msg("PROMPT_SUBMITTED", f.id, f.idx + 1, NoError)>>
            /\ prompts' = IF f.stale THEN prompts
                          ELSE [prompts EXCEPT ![f.idx + 1].status = "submitted"]
  /\ inflight' = RemoveAt(inflight, k)
  /\ lastOp' = Op("submitResolved", f.id)
  /\ UNCHANGED <<isRunning, isPaused, currentIndex, pendingDownloads, workflowInterval,
                 awaiting, downloads, downloadFolder, popupVars, contentVars>>
  /\ stored' = IF processedPrompts = PlainObject THEN stored ELSE SavedState'

\* the awaited tabs.sendMessage rejects: no content script in the tab
submitRejected(k) ==
  LET f == inflight[k] IN
  /\ sent' = <<Msg("ERROR", f.id, f.idx + 1, NoError)>>
  /\ inflight' = RemoveAt(inflight, k)
  /\ lastOp' = Op("submitRejected", f.id)
  /\ UNCHANGED <<prompts, isRunning, isPaused, currentIndex, processedPrompts,
                 pendingDownloads, workflowInterval, awaiting, downloads,
                 downloadFolder, popupVars, contentVars>>
  /\ UNCHANGED stored

(***************************************************************************)
(* Reload: the listeners of runtime.onInstalled and runtime.onStartup.     *)
(***************************************************************************)
\* the run and pause flags a saveState can have written
StoredFlags == {<<FALSE, FALSE>>, <<TRUE, FALSE>>, <<FALSE, TRUE>>}
StoredStatuses == {"pending", "submitted", "completed"}
StoredLists ==
  UNION {{[k \in 1..n |-> NewItem(k, st[k])] : st \in [1..n -> StoredStatuses]} :
           n \in 1..MaxPrompts}

\* result.workflowState of chrome.storage.local.get: undefined when nothing was
\* saved, else the workflowState of the last saveState
NothingStored == [stored |-> FALSE]
StoredStates ==
  {NothingStored} \cup
  {[stored |-> TRUE, prompts |-> pl, currentIndex |-> ci, isRunning |-> fl[1],
    isPaused |-> fl[2], downloadFolder |-> NoFolder] :
     pl \in StoredLists, ci \in 0..1, fl \in StoredFlags}

\* the flags kept as they were stored
FlagsAsStored(rec) == [isRunning |-> rec.isRunning, isPaused |-> rec.isPaused]

\* the flags after loadState: "Don't auto-resume"
LoadedFlags(rec) == [isRunning |-> FALSE, isPaused |-> FALSE]

\* onInstalled / onStartup wake a new worker: loadState() up to its await of
\* chrome.storage.local.get
onStartup ==
  /\ lastOp.op = "init"
  /\ awaiting' = Append(awaiting, "load")
  /\ lastOp' = Op("onStartup", 0)
  /\ sent' = <<>>
  /\ UNCHANGED <<prompts, isRunning, isPaused, currentIndex, processedPrompts,
                 pendingDownloads, workflowInterval, inflight, downloads,
                 downloadFolder, popupVars, contentVars>>
  /\ UNCHANGED stored

\* loadState() after its await, with rec read from storage
loadState(k, rec) ==
  /\ awaiting[k] = "load"
  /\ awaiting' = RemoveAt(awaiting, k)
  /\ lastOp' = Op("loadState", 0)
  /\ sent' = <<>>
  /\ IF rec.stored
       THEN /\ prompts' = rec.prompts
            /\ currentIndex' = rec.currentIndex
            /\ downloadFolder' = rec.downloadFolder
            /\ processedPrompts' = PlainObject
            /\ pendingDownloads' = PlainMap
            /\ isRunning' = LoadedFlags(rec).isRunning
            /\ isPaused' = LoadedFlags(rec).isPaused
            /\ inflight' = MarkStale(inflight)
       ELSE UNCHANGED <<prompts, currentIndex, downloadFolder, processedPrompts,
                        pendingDownloads, isRunning, isPaused, inflight>>
  /\ UNCHANGED <<workflowInterval, downloads, popupVars, contentVars>>
  /\ UNCHANGED stored

\* the browser ends the service worker and starts it again: a new global scope
\* with the initial workflowState, no timer and no suspended call; onStartup calls
\* loadState(), which waits for chrome.storage.local.get.  The storage is kept.
restart ==
  /\ lastOp.op # "restart"
  /\ prompts' = <<>>
  /\ isRunning' = FALSE
  /\ isPaused' = FALSE
  /\ currentIndex' = 0
  /\ processedPrompts' = {}
  /\ pendingDownloads' = [i \in {} |-> 0]
  /\ workflowInterval' = FALSE
  /\ inflight' = <<>>
  /\ awaiting' = <<"load">>
  /\ downloads' = [i \in PromptIds |-> 0]
  /\ downloadFolder' = DefaultFolder
  /\ lastOp' = Op("restart", 0)
  /\ sent' = <<>>
  /\ UNCHANGED <<popupVars, contentVars>>
  /\ UNCHANGED stored

(***************************************************************************)
(* Workflow control: the handlers of the popup's commands.                 *)
(***************************************************************************)
\* START_WORKFLOW: startWorkflow up to its awaits
startWorkflow(pl, folder, startIndex) ==
  /\ PendingLoops(awaiting) < MaxAwaiting
  /\ prompts' = pl
  /\ downloadFolder' = folder
  /\ currentIndex' = startIndex
  /\ isRunning' = TRUE
  /\ isPaused' = FALSE
  /\ processedPrompts' = MarkProcessed(pl, startIndex)
  /\ inflight' = MarkStale(inflight)
  /\ awaiting' = Append(awaiting, "start")
  /\ lastOp' = Op("startWorkflow", 0)
  /\ sent' = <<>>
  /\ UNCHANGED <<pendingDownloads, workflowInterval, downloads, popupVars, contentVars>>
  /\ stored' = SavedState'

\* RESUME_WORKFLOW: resumeWorkflow up to its awaits
resumeWorkflow(ci) ==
  /\ PendingLoops(awaiting) < MaxAwaiting
  /\ currentIndex' = ci
  /\ isRunning' = TRUE
  /\ isPaused' = FALSE
  /\ awaiting' = Append(awaiting, "resume")
  /\ lastOp' = Op("resumeWorkflow", 0)
  /\ sent' = <<>>
  /\ UNCHANGED <<prompts, processedPrompts, pendingDownloads, workflowInterval,
                 inflight, downloads, downloadFolder, popupVars, contentVars>>
  /\ stored' = SavedState'

\* the awaits of startWorkflow/resumeWorkflow are over and the active tab is a Flow
\* tab: startWorkflowLoop()
startWorkflowLoop(k) ==
  /\ awaiting[k] # "load"
  /\ awaiting' = RemoveAt(awaiting, k)
  /\ lastOp' = Op("startWorkflowLoop", 0)
  /\ processNextPrompt(TRUE)
  /\ UNCHANGED <<downloadFolder, popupVars, contentVars>>
  /\ stored' = IF PNPKind = "complete" THEN SavedState' ELSE stored

\* the awaits are over and the active tab is not a Flow tab: startWorkflow reports
\* an error, resumeWorkflow does nothing
tabNotFlow(k) ==
  /\ awaiting[k] # "load"
  /\ awaiting' = RemoveAt(awaiting, k)
  /\ lastOp' = Op("tabNotFlow", 0)
  /\ sent' = IF awaiting[k] = "start" THEN <<Msg("ERROR", 0, 0, NoError)>> ELSE <<>>
  /\ UNCHANGED <<prompts, isRunning, isPaused, currentIndex, processedPrompts,
                 pendingDownloads, workflowInterval, inflight, downloads,
                 downloadFolder, popupVars, contentVars>>
  /\ UNCHANGED stored

\* a timer left as it is
KeptInterval(armed) == armed

\* if (workflowInterval) { clearInterval(workflowInterval); workflowInterval = null; }
ClearedInterval(armed) == FALSE

\* PAUSE_WORKFLOW
pauseWorkflow ==
  /\ isPaused' = TRUE
  /\ isRunning' = FALSE
  /\ workflowInterval' = ClearedInterval(workflowInterval)
  /\ lastOp' = Op("pauseWorkflow", 0)
  /\ sent' = <<>>
  /\ UNCHANGED <<prompts, currentIndex, processedPrompts, pendingDownloads, inflight,
                 awaiting, downloads, downloadFolder, popupVars, contentVars>>
  /\ stored' = SavedState'

\* STOP_WORKFLOW
stopWorkflow ==
  /\ isRunning' = FALSE
  /\ isPaused' = FALSE
  /\ workflowInterval' = ClearedInterval(workflowInterval)
  /\ lastOp' = Op("stopWorkflow", 0)
  /\ sent' = <<>>
  /\ UNCHANGED <<prompts, currentIndex, processedPrompts, pendingDownloads, inflight,
                 awaiting, downloads, downloadFolder, popupVars, contentVars>>
  /\ stored' = SavedState'

\* CLEAR_ALL
clearAll ==
  /\ prompts' = <<>>
  /\ currentIndex' = 0
  /\ isRunning' = FALSE
  /\ isPaused' = FALSE
  /\ processedPrompts' = {}
  /\ pendingDownloads' = [i \in {} |-> 0]
  /\ workflowInterval' = FALSE
  /\ inflight' = MarkStale(inflight)
  /\ lastOp' = Op("clearAll", 0)
  /\ sent' = <<>>
  /\ UNCHANGED <<awaiting, downloads, downloadFolder, popupVars, contentVars>>
  /\ stored' = SavedState'

\* UPDATE_PROMPTS
updatePrompts(pl) ==
  /\ prompts' = pl
  /\ inflight' = MarkStale(inflight)
  /\ lastOp' = Op("updatePrompts", 0)
  /\ sent' = <<>>
  /\ UNCHANGED <<isRunning, isPaused, currentIndex, processedPrompts, pendingDownloads,
                 workflowInterval, awaiting, downloads, downloadFolder, popupVars, contentVars>>
  /\ stored' = SavedState'

\* UPDATE_SETTINGS
updateSettings(folder) ==
  /\ downloadFolder' = folder
  /\ lastOp' = Op("updateSettings", 0)
  /\ sent' = <<>>
  /\ UNCHANGED <<prompts, isRunning, isPaused, currentIndex, processedPrompts,
                 pendingDownloads, workflowInterval, inflight, awaiting, downloads,
                 popupVars, contentVars>>
  /\ stored' = SavedState'

(***************************************************************************)
(* Image handling: the handlers of the content script's messages and of    *)
(* the browser's download events.                                          *)
(***************************************************************************)
UrlKinds == {"blob", "http"}
UrlLists == UNION {[1..n -> UrlKinds] : n \in 0..MaxUrls}

\* the urls of the list that downloadImage hands to chrome.downloads.download
HttpCount(urls) == Cardinality({k \in 1..Len(urls) : urls[k] = "http"})

\* a message or a browser call that names a file
FileMsg(t, i, x, f) == [type |-> t, id |-> i, idx |-> x, err |-> NoError, file |-> f]

\* a file name that numbers the images from 0
FilenameFromZero(folder, sceneNumber, i) ==
  <<IF folder = NoFolder THEN DefaultFolder ELSE folder, "Scene", sceneNumber, "Image", i>>

\* `${folderName}/Scene ${sceneNumber} Image ${i + 1}.png` for the url at 0-based
\* position i, with folderName = settings.downloadFolder || 'FlowGenerations'
Filename(folder, sceneNumber, i) ==
  <<IF folder = NoFolder THEN DefaultFolder ELSE folder, "Scene", sceneNumber, "Image", i + 1>>

\* downloadImage(url, filename, promptId): a DOWNLOAD_BLOB message to the content
\* script for a blob: url, a chrome.downloads.download call for any other
downloadImage(url, filename, pid, i) ==
  IF url = "blob"
    THEN FileMsg("DOWNLOAD_BLOB", pid, i + 1, filename)
    ELSE FileMsg("DOWNLOAD", pid, i + 1, filename)

\* the loop of handleImageGenerated over imageUrls, in url order
DownloadCalls(urls, pid, sceneNumber, folder) ==
  [k \in 1..Len(urls) |->
     downloadImage(urls[k], Filename(folder, sceneNumber, k - 1), pid, k - 1)]

\* IMAGE_GENERATED: handleImageGenerated(promptId, imageUrls) with the downloadImage
\* calls of its loop
handleImageGenerated(pid, urls) ==
  /\ Dispatched(prompts, inflight, pid)
  /\ downloads[pid] + HttpCount(urls) <= MaxUrls
  /\ lastOp' = Op("handleImageGenerated", pid)
  /\ UNCHANGED inflight
  /\ IF Len(urls) = 0
       THEN LET r == handleGenerationFailed(prompts, pid, NoImages) IN
            /\ prompts' = r.prompts
            /\ sent' = r.sent
            /\ UNCHANGED <<pendingDownloads, downloads>>
       ELSE IF FindById(prompts, pid) = 0
         THEN /\ sent' = <<>>
              /\ UNCHANGED <<prompts, pendingDownloads, downloads>>
         ELSE /\ pendingDownloads' =
                   [i \in (DOMAIN pendingDownloads) \cup {pid} |->
                      IF i = pid THEN [total |-> Len(urls), completed |-> 0]
                      ELSE pendingDownloads[i]]
              /\ downloads' = [downloads EXCEPT ![pid] = @ + HttpCount(urls)]
              /\ sent' = DownloadCalls(urls, pid, prompts[FindById(prompts, pid)].id,
                                       downloadFolder)
              /\ UNCHANGED prompts
  /\ UNCHANGED <<isRunning, isPaused, currentIndex, processedPrompts, workflowInterval,
                 awaiting, downloadFolder, popupVars, contentVars>>
  \* handleGenerationFailed saves when it finds the prompt
  /\ stored' = IF Len(urls) = 0 /\ FindById(prompts, pid) # 0 THEN SavedState' ELSE stored

\* chrome.downloads.onChanged reports 'complete' for a download of prompt pid: the
\* listener of downloadImage calls checkDownloadComplete
downloadComplete(pid) ==
  /\ downloads[pid] > 0
  /\ downloads' = [downloads EXCEPT ![pid] = @ - 1]
  /\ lastOp' = Op("downloadComplete", pid)
  /\ LET r == checkDownloadComplete(prompts, pendingDownloads, pid) IN
     /\ prompts' = r.prompts
     /\ pendingDownloads' = r.pending
     /\ sent' = r.sent
  /\ UNCHANGED <<isRunning, isPaused, currentIndex, processedPrompts, workflowInterval,
                 inflight, awaiting, downloadFolder, popupVars, contentVars>>
  \* handleDownloadComplete saves when it finds the prompt
  /\ stored' = IF Len(sent') > 0 THEN SavedState' ELSE stored

\* the download is interrupted, or chrome.downloads.download rejected: logged only
downloadInterrupted(pid) ==
  /\ downloads[pid] > 0
  /\ downloads' = [downloads EXCEPT ![pid] = @ - 1]
  /\ lastOp' = Op("downloadInterrupted", pid)
  /\ sent' = <<>>
  /\ UNCHANGED <<prompts, isRunning, isPaused, currentIndex, processedPrompts,
                 pendingDownloads, workflowInterval, inflight, awaiting,
                 downloadFolder, popupVars, contentVars>>
  /\ UNCHANGED stored

\* IMAGE_DOWNLOAD_COMPLETE
imageDownloadComplete(pid) ==
  /\ Dispatched(prompts, inflight, pid)
  /\ lastOp' = Op("imageDownloadComplete", pid)
  /\ LET r == handleDownloadComplete(prompts, pid) IN
     /\ prompts' = r.prompts
     /\ sent' = r.sent
  /\ UNCHANGED <<isRunning, isPaused, currentIndex, processedPrompts, pendingDownloads,
                 workflowInterval, inflight, awaiting, downloads, downloadFolder, popupVars, contentVars>>
  /\ stored' = IF FindById(prompts, pid) # 0 THEN SavedState' ELSE stored

\* GENERATION_FAILED
generationFailed(pid, err) ==
  /\ Dispatched(prompts, inflight, pid)
  /\ lastOp' = Op("generationFailed", pid)
  /\ UNCHANGED inflight
  /\ LET r == handleGenerationFailed(prompts, pid, err) IN
     /\ prompts' = r.prompts
     /\ sent' = r.sent
  /\ UNCHANGED <<isRunning, isPaused, currentIndex, processedPrompts, pendingDownloads,
                 workflowInterval, awaiting, downloads, downloadFolder, popupVars, contentVars>>
  /\ stored' = IF FindById(prompts, pid) # 0 THEN SavedState' ELSE stored

(***************************************************************************)
(* The popup: prompt registry, workflow control and timers.                *)
(***************************************************************************)
PItem(i, s) == [id |-> i, status |-> s]

\* an id that counts from the start of the batch
BatchPromptId(startIndex, index) == index + 1

\* the id addPrompts gives the item at position index of a batch
NewPromptId(startIndex, index) == startIndex + index + 1

\* addPrompts: the items made of a batch of n texts
NewPrompts(startIndex, n) ==
  [k \in 1..n |-> PItem(NewPromptId(startIndex, k - 1), "pending")]

\* formatTime(seconds): hours, minutes, seconds
formatTime(seconds) ==
  <<seconds \div SecondsPerHour,
    (seconds % SecondsPerHour) \div SecondsPerMinute,
    seconds % SecondsPerMinute>>

\* Math.floor((Date.now() - state.workflow.startTime) / 1000)
ElapsedAt(t, st) == (t - st) \div MsPerSecond

\* a start time that forgets the seconds already elapsed
FreshStart(t, es) == t

\* Date.now() - (state.workflow.elapsedSeconds * 1000)
RebasedStart(t, es) == t - (es * MsPerSecond)

\* the items of the registry with the given status
CountStatus(ps, st) == Cardinality({k \in 1..Len(ps) : ps[k].status = st})

\* an estimate that takes every item for waiting
EstimateFromTotal(ps) == Len(ps) * IntervalSeconds

\* updateTimers(): the seconds of its remaining-time estimate
EstimatedRemaining(ps) ==
  LET total == Len(ps)
      processed == CountStatus(ps, "submitted") + CountStatus(ps, "completed")
                     + CountStatus(ps, "failed")
      remaining == total - processed
  IN IF processed > 0 /\ remaining > 0 THEN remaining * IntervalSeconds
     ELSE IF remaining = 0 THEN 0
     ELSE total * IntervalSeconds

\* updateTimers(): the remaining time shown after it
updateRemaining(ps, st, shown) ==
  IF st = NoStartTime THEN shown ELSE formatTime(EstimatedRemaining(ps))

\* updateTimers(): the elapsed time shown after it
updateTimers(t, st, shown) ==
  IF st = NoStartTime THEN shown ELSE formatTime(ElapsedAt(t, st))

\* updateProgressBar(): the capped percentage it writes.  Math.round(x) is
\* floor(x + 1/2); x = (completed + failed + submitted / 2) * 100 / total
updateProgressBar(ps) ==
  LET total == Len(ps)
      submitted == CountStatus(ps, "submitted")
      completed == CountStatus(ps, "completed")
      failed == CountStatus(ps, "failed")
      percentage ==
        IF total > 0
          THEN ((2 * (completed + failed) + submitted) * PercentFull + total)
                 \div (2 * total)
          ELSE 0
  IN IF percentage < PercentFull THEN percentage ELSE PercentFull

\* updatePromptStatus(promptId, status)
updatePromptStatus(ps, pid, status) ==
  LET k == FindById(ps, pid) IN
  IF k = 0 THEN ps ELSE [ps EXCEPT ![k].status = status]

HasStatus(ps, S) == \E k \in 1..Len(ps) : ps[k].status \in S

\* the reset of state.workflow in handleClear and resetWorkflow
IdleWorkflow ==
  [status |-> "idle", currentIndex |-> 0, startTime |-> NoStartTime, elapsedSeconds |-> 0]

\* the message handlers of the worker are not part of the popup
popupOnly == UNCHANGED <<coordVars, contentVars>>

clockTick ==
  /\ now < ClockStart + MaxClock * ClockStep
  /\ now' = now + ClockStep
  /\ UNCHANGED <<pPrompts, wfStatus, wfCurrentIndex, startTime, elapsedSeconds,
                 timerInterval, elapsedShown, remainingShown, progressShown, modalOpen, initPending, pausedAt,
                 pLastOp, pSent>>
  /\ popupOnly

\* the 1 s interval of startTimerUpdate fires
timerFire ==
  /\ timerInterval
  /\ elapsedShown' = updateTimers(now, startTime, elapsedShown)
  /\ remainingShown' = updateRemaining(pPrompts, startTime, remainingShown)
  /\ progressShown' = IF startTime = NoStartTime THEN progressShown
                      ELSE updateProgressBar(pPrompts)
  /\ pLastOp' = Op("updateTimers", 0)
  /\ pSent' = <<>>
  /\ UNCHANGED <<pPrompts, wfStatus, wfCurrentIndex, startTime, elapsedSeconds,
                 timerInterval, modalOpen, initPending, now, pausedAt>>
  /\ popupOnly

\* addPrompts(newPrompts) with a batch of n texts
addPrompts(n) ==
  /\ Len(pPrompts) + n <= MaxRegistry
  /\ pPrompts' = pPrompts \o NewPrompts(Len(pPrompts), n)
  /\ pLastOp' = Op("addPrompts", n)
  /\ pSent' = <<Msg("UPDATE_PROMPTS", 0, 0, NoError)>>
  /\ UNCHANGED <<wfStatus, wfCurrentIndex, startTime, elapsedSeconds, timerInterval,
                 elapsedShown, remainingShown, progressShown, modalOpen, initPending, now, pausedAt>>
  /\ popupOnly

\* initiateWorkflow()
initiateWorkflow ==
  /\ wfStatus' = "running"
  /\ startTime' = RebasedStart(now, elapsedSeconds)
  /\ timerInterval' = TRUE
  /\ elapsedShown' = updateTimers(now, startTime', elapsedShown)
  /\ remainingShown' = updateRemaining(pPrompts, startTime', remainingShown)
  /\ progressShown' = updateProgressBar(pPrompts)
  /\ pSent' = <<Msg("START_WORKFLOW", 0, wfCurrentIndex, NoError)>>
  /\ pausedAt' = 0
  /\ UNCHANGED <<pPrompts, wfCurrentIndex, elapsedSeconds, now>>

\* resumeWorkflow() of the popup
popupResumeWorkflow ==
  /\ wfStatus' = "running"
  /\ startTime' = RebasedStart(now, elapsedSeconds)
  /\ timerInterval' = TRUE
  /\ elapsedShown' = updateTimers(now, startTime', elapsedShown)
  /\ remainingShown' = updateRemaining(pPrompts, startTime', remainingShown)
  /\ progressShown' = updateProgressBar(pPrompts)
  /\ pSent' = <<Msg("RESUME_WORKFLOW", 0, wfCurrentIndex, NoError)>>
  /\ pLastOp' = Op("resumeWorkflow", IF wfStatus = "paused" THEN now - pausedAt ELSE -1)
  /\ pausedAt' = 0
  /\ UNCHANGED <<pPrompts, wfCurrentIndex, elapsedSeconds, modalOpen, initPending, now>>

\* resetWorkflow() followed by showProjectModal()
resetWorkflow ==
  /\ pPrompts' = [k \in 1..Len(pPrompts) |-> [pPrompts[k] EXCEPT !.status = "pending"]]
  /\ wfStatus' = IdleWorkflow.status
  /\ wfCurrentIndex' = IdleWorkflow.currentIndex
  /\ startTime' = IdleWorkflow.startTime
  /\ elapsedSeconds' = IdleWorkflow.elapsedSeconds
  /\ modalOpen' = TRUE
  /\ pLastOp' = Op("resetWorkflow", 0)
  /\ pSent' = <<>>
  /\ pausedAt' = 0
  /\ UNCHANGED <<timerInterval, elapsedShown, remainingShown, progressShown, initPending, now>>

\* a click on Run (enabled unless the status is running): handleRun(); confirmed is
\* the answer to its confirm() dialog
handleRun(confirmed) ==
  /\ wfStatus # "running"
  /\ Len(pPrompts) > 0
  /\ IF wfStatus = "paused"
       THEN popupResumeWorkflow
       ELSE IF HasStatus(pPrompts, {"submitted", "completed"}) /\ HasStatus(pPrompts, {"pending"})
         THEN (IF confirmed THEN popupResumeWorkflow ELSE resetWorkflow)
         ELSE /\ modalOpen' = TRUE
              /\ pLastOp' = Op("showProjectModal", 0)
              /\ pSent' = <<>>
              /\ UNCHANGED <<pPrompts, wfStatus, wfCurrentIndex, startTime, elapsedSeconds,
                             timerInterval, elapsedShown, remainingShown, progressShown, initPending, now, pausedAt>>
  /\ popupOnly

\* a click on Same Project: startWorkflow(false)
sameProject ==
  /\ modalOpen
  /\ modalOpen' = FALSE
  /\ pLastOp' = Op("initiateWorkflow", 0)
  /\ initiateWorkflow
  /\ UNCHANGED initPending
  /\ popupOnly

\* a click on New Project: startWorkflow(true) up to its setTimeout
newProject ==
  /\ modalOpen
  /\ ~initPending
  /\ modalOpen' = FALSE
  /\ initPending' = TRUE
  /\ pLastOp' = Op("newProject", 0)
  /\ pSent' = <<Msg("CREATE_NEW_PROJECT", 0, 0, NoError)>>
  /\ UNCHANGED <<pPrompts, wfStatus, wfCurrentIndex, startTime, elapsedSeconds,
                 timerInterval, elapsedShown, remainingShown, progressShown, now, pausedAt>>
  /\ popupOnly

\* the timeout of startWorkflow(true) fires
newProjectTimeout ==
  /\ initPending
  /\ initPending' = FALSE
  /\ pLastOp' = Op("initiateWorkflow", 0)
  /\ initiateWorkflow
  /\ UNCHANGED modalOpen
  /\ popupOnly

\* a click on the modal's close button
closeModal ==
  /\ modalOpen
  /\ modalOpen' = FALSE
  /\ pLastOp' = Op("closeModal", 0)
  /\ pSent' = <<>>
  /\ UNCHANGED <<pPrompts, wfStatus, wfCurrentIndex, startTime, elapsedSeconds,
                 timerInterval, elapsedShown, remainingShown, progressShown, initPending, now, pausedAt>>
  /\ popupOnly

\* a click on Pause (enabled while the status is running): handlePause()
handlePause ==
  /\ wfStatus = "running"
  /\ wfStatus' = "paused"
  /\ elapsedSeconds' = ElapsedAt(now, startTime)
  /\ timerInterval' = FALSE
  /\ pausedAt' = now
  /\ pLastOp' = Op("handlePause", 0)
  /\ progressShown' = updateProgressBar(pPrompts)
  /\ pSent' = <<Msg("PAUSE_WORKFLOW", 0, 0, NoError)>>
  /\ UNCHANGED <<pPrompts, wfCurrentIndex, startTime, elapsedShown, remainingShown, modalOpen,
                 initPending, now>>
  /\ popupOnly

\* a click on Stop (enabled while running or paused): handleStop(), confirmed
handleStop ==
  /\ wfStatus \in {"running", "paused"}
  /\ wfStatus' = "stopped"
  /\ elapsedSeconds' = ElapsedAt(now, startTime)
  /\ timerInterval' = FALSE
  /\ pausedAt' = 0
  /\ pLastOp' = Op("handleStop", 0)
  /\ progressShown' = updateProgressBar(pPrompts)
  /\ pSent' = <<Msg("STOP_WORKFLOW", 0, 0, NoError)>>
  /\ UNCHANGED <<pPrompts, wfCurrentIndex, startTime, elapsedShown, remainingShown, modalOpen,
                 initPending, now>>
  /\ popupOnly

\* the guard of handleClear: it refuses while this holds
ClearRefused(status) == status = "running"

\* a click on Clear: handleClear(), confirmed
handleClear ==
  /\ pLastOp' = Op("handleClear", 0)
  /\ IF ClearRefused(wfStatus)
       THEN /\ pSent' = <<>>
            /\ UNCHANGED <<pPrompts, wfStatus, wfCurrentIndex, startTime, elapsedSeconds,
                           pausedAt, progressShown>>
       ELSE /\ pPrompts' = <<>>
            /\ progressShown' = updateProgressBar(pPrompts')
            /\ wfStatus' = IdleWorkflow.status
            /\ wfCurrentIndex' = IdleWorkflow.currentIndex
            /\ startTime' = IdleWorkflow.startTime
            /\ elapsedSeconds' = IdleWorkflow.elapsedSeconds
            /\ pausedAt' = 0
            /\ pSent' = <<Msg("CLEAR_ALL", 0, 0, NoError)>>
  /\ UNCHANGED <<timerInterval, elapsedShown, remainingShown, modalOpen, initPending, now>>
  /\ popupOnly

\* handleBackgroundMessage: PROMPT_SUBMITTED
promptSubmitted(pid, ci) ==
  /\ pPrompts' = updatePromptStatus(pPrompts, pid, "submitted")
  /\ wfCurrentIndex' = ci
  /\ pLastOp' = Op("promptSubmitted", pid)
  /\ pSent' = <<>>
  /\ UNCHANGED <<wfStatus, startTime, elapsedSeconds, timerInterval, elapsedShown, remainingShown, progressShown,
                 modalOpen, initPending, now, pausedAt>>
  /\ popupOnly

\* handleBackgroundMessage: PROMPT_COMPLETED and PROMPT_FAILED
promptFinished(pid, status) ==
  /\ pPrompts' = updatePromptStatus(pPrompts, pid, status)
  /\ pLastOp' = Op("promptFinished", pid)
  /\ progressShown' = updateProgressBar(pPrompts')
  /\ pSent' = <<>>
  /\ UNCHANGED <<wfStatus, wfCurrentIndex, startTime, elapsedSeconds, timerInterval,
                 elapsedShown, remainingShown, modalOpen, initPending, now, pausedAt>>
  /\ popupOnly

\* handleBackgroundMessage: WORKFLOW_COMPLETED
workflowCompletedMessage ==
  /\ wfStatus' = "completed"
  /\ timerInterval' = FALSE
  /\ pausedAt' = 0
  /\ pLastOp' = Op("workflowCompletedMessage", 0)
  /\ progressShown' = updateProgressBar(pPrompts)
  /\ pSent' = <<>>
  /\ UNCHANGED <<pPrompts, wfCurrentIndex, startTime, elapsedSeconds, elapsedShown, remainingShown,
                 modalOpen, initPending, now>>
  /\ popupOnly

\* the popup is opened again: initialize().  loadSavedState() restores what
\* saveState() wrote last; the handlers that change the workflow or the index all
\* end in saveState(), so that these are the values in memory.  updateUI() arms
\* the display timer when the restored status is running.
initialize ==
  /\ timerInterval' = (wfStatus = "running")
  /\ elapsedShown' = IF wfStatus = "running"
                       THEN updateTimers(now, startTime, <<0, 0, 0>>) ELSE <<0, 0, 0>>
  /\ remainingShown' = IF wfStatus = "running"
                         THEN updateRemaining(pPrompts, startTime, <<0, 0, 0>>)
                         ELSE <<0, 0, 0>>
  /\ progressShown' = updateProgressBar(pPrompts)
  /\ modalOpen' = FALSE
  /\ initPending' = FALSE
  /\ pLastOp' = Op("initialize", 0)
  /\ pSent' = <<>>
  /\ UNCHANGED <<pPrompts, wfStatus, wfCurrentIndex, startTime, elapsedSeconds, now,
                 pausedAt>>
  /\ popupOnly

\* the promise of the popup's sendMessage resolves with the worker's response
messageAnswered ==
  /\ pSent # <<>>
  /\ pSent' = <<>>
  /\ UNCHANGED <<pPrompts, wfStatus, wfCurrentIndex, startTime, elapsedSeconds,
                 timerInterval, elapsedShown, remainingShown, progressShown, modalOpen,
                 initPending, now, pausedAt, pLastOp>>
  /\ popupOnly

(***************************************************************************)
(* The content script: prompt submission in the page, image detection and  *)
(* blob download.                                                          *)
(***************************************************************************)
SubmitError == "Could not find prompt input field"
TimeoutError == "Image generation timeout"

\* the worker and the popup are not part of the content script
contentOnly == UNCHANGED <<coordVars, popupVars>>

\* the images detected so far for the prompt that is current, recorded in its
\* timeouts
Detected(ms, pid, n) ==
  [k \in 1..Len(ms) |->
     IF ms[k].id = pid THEN [ms[k] EXCEPT !.images = @ + n] ELSE ms[k]]

\* the messages that tell the worker the outcome of a prompt
TerminalTypes == {"IMAGE_GENERATED", "GENERATION_FAILED"}

\* the count of notified with the messages msgs added
Counted(nt, msgs) ==
  [i \in DOMAIN nt |->
     nt[i] + Cardinality({k \in 1..Len(msgs) : msgs[k].type \in TerminalTypes /\ msgs[k].id = i})]

\* SUBMIT_PROMPT: handleMessage calls submitPrompt(prompt, index, settings), which
\* sets the current prompt, clears detectedImages and waits for the input field
handleSubmitPrompt(pid) ==
  /\ Len(monitors) + Cardinality(submitting) < MaxMonitors
  /\ pid \notin submitting
  /\ currentPrompt' = pid
  /\ detectedImages' = 0
  /\ submitting' = submitting \cup {pid}
  /\ cLastOp' = Op("handleSubmitPrompt", pid)
  /\ cSent' = <<>>
  /\ notified' = [notified EXCEPT ![pid] = 0]
  /\ UNCHANGED <<lastImageCount, pageImages, observing, blobsHandled, monitors>>
  /\ contentOnly

\* submitPrompt after its awaits (waitForElement, typeText, sleep); found: the input
\* field and the generate button were found, so that startImageMonitoring(prompt)
\* runs
submitPrompt(pid, found) ==
  /\ pid \in submitting
  /\ submitting' = submitting \ {pid}
  /\ cLastOp' = Op(IF found THEN "submitPrompt" ELSE "submitFailed", pid)
  /\ IF found
       THEN /\ monitors' = Append(monitors, [id |-> pid, images |-> 0])
            /\ lastImageCount' = pageImages
            /\ observing' = TRUE
            /\ cSent' = <<>>
            /\ UNCHANGED currentPrompt
       ELSE \* notifyGenerationFailed(prompt.id, error.message)
            /\ currentPrompt' = 0
            /\ cSent' = <<Msg("GENERATION_FAILED", pid, 0, SubmitError)>>
            /\ UNCHANGED <<monitors, lastImageCount, observing>>
  /\ notified' = Counted(notified, cSent')
  /\ UNCHANGED <<detectedImages, pageImages, blobsHandled>>
  /\ contentOnly

\* a generated image appears in the page
imageAppears ==
  /\ pageImages < MaxUrls
  /\ pageImages' = pageImages + 1
  /\ cLastOp' = Op("imageAppears", 0)
  /\ cSent' = <<>>
  /\ UNCHANGED <<currentPrompt, detectedImages, lastImageCount, submitting, observing,
                 blobsHandled, notified, monitors>>
  /\ contentOnly

\* the images of the page whose src is not in state.detectedImages
NewImages(page, detected) == page - detected

\* checkForNewImages(), called by the mutation observer or by the poll of the
\* current prompt, finds n new images in the page
checkForNewImages(n) ==
  /\ observing
  /\ currentPrompt # 0
  /\ n = NewImages(pageImages, detectedImages)
  /\ detectedImages + n <= MaxUrls
  /\ detectedImages' = detectedImages + n
  /\ monitors' = Detected(monitors, currentPrompt, n)
  /\ cLastOp' = Op("checkForNewImages", currentPrompt)
  /\ IF detectedImages' >= ExpectedCount
       THEN \* notifyImagesGenerated(state.currentPrompt.id, imageUrls)
            /\ cSent' = <<Msg("IMAGE_GENERATED", currentPrompt, n, NoError)>>
            /\ currentPrompt' = 0
       ELSE /\ cSent' = <<>>
            /\ UNCHANGED currentPrompt
  /\ notified' = Counted(notified, cSent')
  /\ UNCHANGED <<lastImageCount, pageImages, submitting, observing, blobsHandled>>
  /\ contentOnly

\* the 120 s timeout of the oldest startImageMonitoring fires
imageTimeout ==
  /\ Len(monitors) > 0
  /\ monitors' = Tail(monitors)
  /\ cLastOp' = Op("imageTimeout", Head(monitors).id)
  /\ IF currentPrompt = Head(monitors).id /\ detectedImages = 0
       THEN \* notifyGenerationFailed(prompt.id, 'Image generation timeout')
            /\ cSent' = <<Msg("GENERATION_FAILED", Head(monitors).id, 0, TimeoutError)>>
            /\ currentPrompt' = 0
       ELSE /\ cSent' = <<>>
            /\ UNCHANGED currentPrompt
  /\ notified' = Counted(notified, cSent')
  /\ UNCHANGED <<detectedImages, lastImageCount, pageImages, submitting, observing,
                 blobsHandled>>
  /\ contentOnly

\* DOWNLOAD_BLOB: downloadBlobImage(blobUrl, filename, promptId); fetched: the
\* fetch of the blob url and the reading of the blob succeeded
downloadBlobImage(pid, fetched) ==
  /\ blobsHandled[pid] < MaxUrls
  /\ blobsHandled' = [blobsHandled EXCEPT ![pid] = @ + 1]
  /\ cLastOp' = Op(IF fetched THEN "downloadBlobImage" ELSE "downloadBlobFailed", pid)
  /\ cSent' = IF fetched THEN <<Msg("DOWNLOAD_DATA_URL", pid, 0, NoError)>>
              ELSE <<>>  \* console.error only
  /\ UNCHANGED <<currentPrompt, detectedImages, lastImageCount, pageImages, submitting,
                 observing, notified, monitors>>
  /\ contentOnly

\* DOWNLOAD_DATA_URL reaches the worker: handleMessage has no case for it, its default
\* branch answers { success: false, error: 'Unknown message type' } and the state
\* of the worker is left as it is
downloadDataUrl(pid) ==
  /\ cSent = <<Msg("DOWNLOAD_DATA_URL", pid, 0, NoError)>>
  /\ cLastOp' = Op("downloadDataUrl", pid)
  /\ cSent' = <<>>
  /\ UNCHANGED <<currentPrompt, detectedImages, lastImageCount, pageImages, submitting,
                 observing, blobsHandled, notified, monitors>>
  /\ contentOnly

Init ==
  /\ prompts = <<>>
  /\ isRunning = FALSE
  /\ isPaused = FALSE
  /\ currentIndex = 0
  /\ processedPrompts = {}
  /\ pendingDownloads = [i \in {} |-> 0]
  /\ workflowInterval = FALSE
  /\ inflight = <<>>
  /\ awaiting = <<>>
  /\ downloads = [i \in PromptIds |-> 0]
  /\ downloadFolder = DefaultFolder
  /\ stored = NothingStored
  /\ lastOp = Op("init", 0)
  /\ sent = <<>>
  /\ pPrompts = <<>>
  /\ wfStatus = "idle"
  /\ wfCurrentIndex = 0
  /\ startTime = NoStartTime
  /\ elapsedSeconds = 0
  /\ timerInterval = FALSE
  /\ elapsedShown = <<0, 0, 0>>
  /\ remainingShown = <<0, 0, 0>>
  /\ progressShown = 0
  /\ modalOpen = FALSE
  /\ initPending = FALSE
  /\ now = ClockStart
  /\ pausedAt = 0
  /\ pLastOp = Op("init", 0)
  /\ pSent = <<>>
  /\ currentPrompt = 0
  /\ detectedImages = 0
  /\ lastImageCount = 0
  /\ pageImages = 0
  /\ submitting = {}
  /\ observing = FALSE
  /\ blobsHandled = [i \in PromptIds |-> 0]
  /\ notified = [i \in PromptIds |-> 0]
  /\ monitors = <<>>
  /\ cLastOp = Op("init", 0)
  /\ cSent = <<>>

(***************************************************************************)
(* The background service worker under the popup's commands: every control *)
(* message, the dispatch loop, and the completion and failure of items.    *)
(***************************************************************************)
Next ==
  \/ \E pl \in StartLists(prompts) : \E si \in 0..Len(pl) : startWorkflow(pl, NoFolder, si)
  \/ \E ci \in 0..Len(prompts) : resumeWorkflow(ci)
  \/ \E k \in 1..Len(awaiting) : startWorkflowLoop(k)
  \/ \E k \in 1..Len(awaiting) : tabNotFlow(k)
  \/ pauseWorkflow
  \/ stopWorkflow
  \/ clearAll
  \/ \E pl \in UpdateLists(prompts) : updatePrompts(pl)
  \/ timerTick
  \/ \E k \in 1..Len(inflight) : submitResolved(k)
  \/ \E k \in 1..Len(inflight) : submitRejected(k)
  \/ \E pid \in PromptIds : imageDownloadComplete(pid)
  \/ \E pid \in PromptIds : generationFailed(pid, "r1")

Spec == Init /\ [][Next]_vars

\* The interval timer fires while it is armed, and the awaited browser calls of
\* startWorkflow/resumeWorkflow return.
FairSpec ==
  /\ Init
  /\ [][Next]_vars
  /\ WF_vars(timerTick)
  /\ WF_vars(\E k \in 1..Len(awaiting) : startWorkflowLoop(k) \/ tabNotFlow(k))

(***************************************************************************)
(* One run of the worker over a registry of SignalPrompts items, under     *)
(* every interleaving of timer ticks, SUBMIT_PROMPT responses, the content *)
(* script's and the browser's signals, and a pause or stop by the user.    *)
(***************************************************************************)
SignalNext ==
  \/ /\ prompts = <<>>
     /\ \E folder \in Folders : startWorkflow(FreshItems(0, SignalPrompts), folder, 0)
  \/ \E k \in 1..Len(awaiting) : startWorkflowLoop(k)
  \/ timerTick
  \/ \E k \in 1..Len(inflight) : submitResolved(k)
  \/ \E pid \in PromptIds : \E urls \in UrlLists : handleImageGenerated(pid, urls)
  \/ \E pid \in PromptIds : downloadComplete(pid)
  \/ \E pid \in PromptIds : downloadInterrupted(pid)
  \/ \E pid \in PromptIds : imageDownloadComplete(pid)
  \/ \E pid \in PromptIds : \E err \in Reasons : generationFailed(pid, err)
  \/ pauseWorkflow
  \/ stopWorkflow
  \/ \E folder \in Folders : updateSettings(folder)

SignalSpec == Init /\ [][SignalNext]_vars

(***************************************************************************)
(* One run under the messages the content script sends and the download    *)
(* events of the browser.  No script of the extension sends                *)
(* IMAGE_DOWNLOAD_COMPLETE.                                                *)
(***************************************************************************)
DownloadNext ==
  \/ /\ prompts = <<>>
     /\ startWorkflow(FreshItems(0, SignalPrompts), NoFolder, 0)
  \/ \E k \in 1..Len(awaiting) : startWorkflowLoop(k)
  \/ timerTick
  \/ \E k \in 1..Len(inflight) : submitResolved(k)
  \/ \E pid \in PromptIds : \E urls \in UrlLists : handleImageGenerated(pid, urls)
  \/ \E pid \in PromptIds : downloadComplete(pid)
  \/ \E pid \in PromptIds : downloadInterrupted(pid)
  \/ \E pid \in PromptIds : \E err \in Reasons : generationFailed(pid, err)

DownloadSpec == Init /\ [][DownloadNext]_vars

(***************************************************************************)
(* One run of the worker from a fresh START_WORKFLOW at index 0: the       *)
(* dispatch loop under every interleaving of timer ticks, SUBMIT_PROMPT    *)
(* responses and rejections, failure signals of the content script, and    *)
(* prompts the popup appends meanwhile.                                    *)
(***************************************************************************)
RunNext ==
  \/ /\ prompts = <<>>
     /\ \E n \in 1..MaxPrompts : startWorkflow(FreshItems(0, n), NoFolder, 0)
  \/ \E k \in 1..Len(awaiting) : startWorkflowLoop(k)
  \/ timerTick
  \/ \E k \in 1..Len(inflight) : submitResolved(k)
  \/ \E k \in 1..Len(inflight) : submitRejected(k)
  \/ \E pid \in PromptIds : generationFailed(pid, "r1")
  \/ \E pl \in UpdateLists(prompts) : updatePrompts(pl)

RunSpec == Init /\ [][RunNext]_vars

(***************************************************************************)
(* A worker woken by install or browser start: loadState, then the popup's *)
(* commands and the dispatch loop.                                         *)
(***************************************************************************)
ReloadNext ==
  \/ onStartup
  \/ \E k \in 1..Len(awaiting) : \E rec \in StoredStates : loadState(k, rec)
  \/ /\ Len(prompts) > 0
     /\ startWorkflow(ResetOf(prompts), NoFolder, 0)
  \/ /\ Len(prompts) = 0
     /\ startWorkflow(FreshItems(0, 1), NoFolder, 0)
  \/ \E ci \in 0..1 : resumeWorkflow(ci)
  \/ \E k \in 1..Len(awaiting) : startWorkflowLoop(k)
  \/ \E k \in 1..Len(awaiting) : tabNotFlow(k)
  \/ timerTick
  \/ \E k \in 1..Len(inflight) : submitResolved(k)
  \/ \E k \in 1..Len(inflight) : submitRejected(k)
  \/ pauseWorkflow

ReloadSpec == Init /\ [][ReloadNext]_vars

(***************************************************************************)
(* A run of the worker, a restart of the browser, loadState from what the  *)
(* run saved, and the popup's RESUME_WORKFLOW with the saved index.        *)
(***************************************************************************)
RestartNext ==
  \/ /\ lastOp.op = "init"
     /\ \E n \in 1..MaxPrompts : startWorkflow(FreshItems(0, n), NoFolder, 0)
  \/ \E k \in 1..Len(awaiting) : startWorkflowLoop(k)
  \/ \E k \in 1..Len(awaiting) : tabNotFlow(k)
  \/ timerTick
  \/ \E k \in 1..Len(inflight) : submitResolved(k)
  \/ \E k \in 1..Len(inflight) : submitRejected(k)
  \/ \E pid \in PromptIds : generationFailed(pid, "r1")
  \/ pauseWorkflow
  \/ /\ stored.stored
     /\ restart
  \/ \E k \in 1..Len(awaiting) : loadState(k, stored)
  \/ /\ ~isRunning
     /\ Len(prompts) > 0
     /\ resumeWorkflow(currentIndex)

RestartSpec == Init /\ [][RestartNext]_vars

(***************************************************************************)
(* The worker and the content script together, joined by their messages:   *)
(* a SUBMIT_PROMPT in flight is handled by the page and then answered, and *)
(* a message of the page is handled by the worker before the page acts     *)
(* again.  The response arrives before the next tick and before the 120 s  *)
(* timeout; the page finds the input field; every image has an http url.   *)
(***************************************************************************)
\* the page holds a monitor (poll and timeout) of the prompt
Monitored(pid) == \E k \in 1..Len(monitors) : monitors[k].id = pid

\* the status of the item with the id, "none" if the registry has no such item
StatusOf(pid) ==
  IF FindById(prompts, pid) = 0 THEN "none" ELSE prompts[FindById(prompts, pid)].status

\* the last message of the page has not been handled by the worker yet
Undelivered ==
  /\ cSent # <<>>
  /\ IF cSent[1].type = "IMAGE_GENERATED"
       THEN cSent[1].id \notin DOMAIN pendingDownloads /\ ~IsTerminal(StatusOf(cSent[1].id))
       ELSE IF cSent[1].type = "GENERATION_FAILED"
         THEN StatusOf(cSent[1].id) # "failed"
         ELSE TRUE

pageSubmit ==
  \E k \in 1..Len(inflight) :
    /\ ~Undelivered
    /\ ~Monitored(inflight[k].id)
    /\ handleSubmitPrompt(inflight[k].id)

pageSubmitted ==
  /\ ~Undelivered
  /\ \E pid \in submitting : submitPrompt(pid, TRUE)

pageResponse ==
  \E k \in 1..Len(inflight) : Monitored(inflight[k].id) /\ submitResolved(k)

pagePoll ==
  /\ ~Undelivered
  /\ \E n \in 1..MaxUrls : checkForNewImages(n)

pageTimeout ==
  /\ ~Undelivered
  /\ inflight = <<>>
  /\ imageTimeout

pageImagesDelivered ==
  /\ Undelivered
  /\ cSent[1].type = "IMAGE_GENERATED"
  /\ handleImageGenerated(cSent[1].id, [k \in 1..cSent[1].idx |-> "http"])

pageFailureDelivered ==
  /\ Undelivered
  /\ cSent[1].type = "GENERATION_FAILED"
  /\ generationFailed(cSent[1].id, cSent[1].err)

PipelineNext ==
  \/ /\ lastOp.op = "init"
     /\ \E n \in 1..MaxPrompts : startWorkflow(FreshItems(0, n), NoFolder, 0)
  \/ \E k \in 1..Len(awaiting) : startWorkflowLoop(k)
  \/ /\ inflight = <<>>
     /\ timerTick
  \/ pageSubmit
  \/ pageSubmitted
  \/ pageResponse
  \/ /\ ~Undelivered
     /\ imageAppears
  \/ pagePoll
  \/ pageTimeout
  \/ pageImagesDelivered
  \/ pageFailureDelivered
  \/ \E pid \in PromptIds : downloadComplete(pid)

\* Timers fire, messages are delivered and answered, and started downloads finish.
\* When and how many images appear is left to the page.
PipelineSpec ==
  /\ Init
  /\ [][PipelineNext]_vars
  /\ WF_vars(\E k \in 1..Len(awaiting) : startWorkflowLoop(k))
  /\ WF_vars(inflight = <<>> /\ timerTick)
  /\ WF_vars(pageSubmit)
  /\ WF_vars(pageSubmitted)
  /\ WF_vars(pageResponse)
  /\ WF_vars(pagePoll)
  /\ WF_vars(pageTimeout)
  /\ WF_vars(pageImagesDelivered)
  /\ WF_vars(pageFailureDelivered)
  /\ WF_vars(\E pid \in PromptIds : downloadComplete(pid))

(***************************************************************************)
(* The worker and the content script together when the page's images have  *)
(* blob: urls: each url goes to the page as DOWNLOAD_BLOB and comes back as *)
(* DOWNLOAD_DATA_URL.                                                      *)
(***************************************************************************)
pageBlobsDelivered ==
  /\ Undelivered
  /\ cSent[1].type = "IMAGE_GENERATED"
  /\ handleImageGenerated(cSent[1].id, [k \in 1..cSent[1].idx |-> "blob"])

pageBlobConverted ==
  /\ ~Undelivered
  /\ \E pid \in PromptIds :
       /\ pid \in DOMAIN pendingDownloads
       /\ blobsHandled[pid] < pendingDownloads[pid].total
       /\ downloadBlobImage(pid, TRUE)

BlobNext ==
  \/ /\ lastOp.op = "init"
     /\ startWorkflow(FreshItems(0, SignalPrompts), NoFolder, 0)
  \/ \E k \in 1..Len(awaiting) : startWorkflowLoop(k)
  \/ /\ inflight = <<>>
     /\ timerTick
  \/ pageSubmit
  \/ pageSubmitted
  \/ pageResponse
  \/ /\ ~Undelivered
     /\ imageAppears
  \/ pagePoll
  \/ pageTimeout
  \/ pageBlobsDelivered
  \/ pageBlobConverted
  \/ \E pid \in PromptIds : downloadDataUrl(pid)

\* Timers fire and messages are delivered, converted and answered.
BlobSpec ==
  /\ Init
  /\ [][BlobNext]_vars
  /\ WF_vars(\E k \in 1..Len(awaiting) : startWorkflowLoop(k))
  /\ WF_vars(inflight = <<>> /\ timerTick)
  /\ WF_vars(pageSubmit)
  /\ WF_vars(pageSubmitted)
  /\ WF_vars(pageResponse)
  /\ WF_vars(pagePoll)
  /\ WF_vars(pageTimeout)
  /\ WF_vars(pageBlobsDelivered)
  /\ WF_vars(pageBlobConverted)
  /\ WF_vars(\E pid \in PromptIds : downloadDataUrl(pid))

(***************************************************************************)
(* A workflow started at the last item of its registry: START_WORKFLOW     *)
(* carries startIndex = length - 1 > 0 and items before it of any status.  *)
(***************************************************************************)
ItemStatuses == {"pending", "submitted", "completed", "failed"}

\* the registries of MaxPrompts items whose last item is pending
LastPendingLists ==
  {[k \in 1..MaxPrompts |->
      IF k = MaxPrompts THEN NewItem(k, "pending") ELSE NewItem(k, f[k])] :
     f \in [1..(MaxPrompts - 1) -> ItemStatuses]}

FromIndexNext ==
  \/ /\ lastOp.op = "init"
     /\ \E pl \in LastPendingLists : startWorkflow(pl, NoFolder, Len(pl) - 1)
  \/ \E k \in 1..Len(awaiting) : startWorkflowLoop(k)
  \/ timerTick
  \/ \E k \in 1..Len(inflight) : submitResolved(k)
  \/ \E k \in 1..Len(inflight) : submitRejected(k)
  \/ \E pid \in PromptIds : imageDownloadComplete(pid)
  \/ \E pid \in PromptIds : generationFailed(pid, "r1")

\* The timer fires, the awaits of startWorkflow end and the sends are answered.
FromIndexSpec ==
  /\ Init
  /\ [][FromIndexNext]_vars
  /\ WF_vars(timerTick)
  /\ WF_vars(\E k \in 1..Len(awaiting) : startWorkflowLoop(k))
  /\ WF_vars(\E k \in 1..Len(inflight) : submitResolved(k) \/ submitRejected(k))

(***************************************************************************)
(* The popup and the worker together, joined by their messages, with the   *)
(* browser restarting.  A control message is handled by the worker and     *)
(* answered before anything else happens; a PROMPT_SUBMITTED is delivered  *)
(* to the popup before the worker's next step; the user clicks when no     *)
(* message, response or suspended handler is outstanding.  No image is     *)
(* generated in the meantime.                                              *)
(***************************************************************************)
\* the handler of the worker's handleMessage for a message type of the popup
HandlerOf(type) ==
  CASE type = "START_WORKFLOW" -> "startWorkflow"
    [] type = "RESUME_WORKFLOW" -> "resumeWorkflow"
    [] type = "PAUSE_WORKFLOW" -> "pauseWorkflow"
    [] type = "STOP_WORKFLOW" -> "stopWorkflow"
    [] type = "CLEAR_ALL" -> "clearAll"
    [] type = "UPDATE_PROMPTS" -> "updatePrompts"
    [] OTHER -> "default"

\* the worker has sent a PROMPT_SUBMITTED that the popup has not handled
NotePending ==
  /\ sent # <<>>
  /\ sent[1].type = "PROMPT_SUBMITTED"
  /\ pLastOp # Op("promptSubmitted", sent[1].id)

\* nothing is outstanding between the popup, the worker and the page, and the
\* project modal does not cover the popup's buttons
UserIdle ==
  /\ ~modalOpen
  /\ pSent = <<>>
  /\ awaiting = <<>>
  /\ inflight = <<>>
  /\ "PROMPT_SUBMITTED" \notin SentTypes(sent)

\* handleMessage of the worker with the message the popup sent
controlHandled ==
  /\ pSent # <<>>
  /\ lastOp.op # HandlerOf(pSent[1].type)
  /\ CASE pSent[1].type = "START_WORKFLOW" ->
            startWorkflow(MirrorOf(pPrompts), NoFolder, pSent[1].idx)
       [] pSent[1].type = "RESUME_WORKFLOW" -> resumeWorkflow(pSent[1].idx)
       [] pSent[1].type = "PAUSE_WORKFLOW" -> pauseWorkflow
       [] pSent[1].type = "STOP_WORKFLOW" -> stopWorkflow
       [] pSent[1].type = "CLEAR_ALL" -> clearAll
       [] pSent[1].type = "UPDATE_PROMPTS" -> updatePrompts(MirrorOf(pPrompts))
       [] OTHER -> FALSE

controlAnswered ==
  /\ pSent # <<>>
  /\ lastOp.op = HandlerOf(pSent[1].type)
  /\ messageAnswered

noteDelivered ==
  /\ NotePending
  /\ promptSubmitted(sent[1].id, sent[1].idx)

SyncNext ==
  \/ /\ UserIdle
     /\ pPrompts = <<>>
     /\ \E n \in 1..MaxPrompts : addPrompts(n)
  \/ /\ UserIdle
     /\ \E c \in BOOLEAN : handleRun(c)
  \/ /\ pSent = <<>>
     /\ awaiting = <<>>
     /\ inflight = <<>>
     /\ ~NotePending
     /\ sameProject
  \/ /\ UserIdle
     /\ handlePause
  \/ /\ UserIdle
     /\ handleStop
  \/ /\ UserIdle
     /\ pPrompts # <<>>
     /\ handleClear
  \/ controlHandled
  \/ controlAnswered
  \/ /\ pSent = <<>>
     /\ \E k \in 1..Len(awaiting) : startWorkflowLoop(k)
  \/ /\ pSent = <<>>
     /\ \E k \in 1..Len(awaiting) : tabNotFlow(k)
  \/ /\ pSent = <<>>
     /\ inflight = <<>>
     /\ ~NotePending
     /\ timerTick
  \/ /\ pSent = <<>>
     /\ \E k \in 1..Len(inflight) : submitResolved(k)
  \/ noteDelivered
  \/ /\ UserIdle
     /\ stored.stored
     /\ restart
  \/ /\ lastOp.op = "restart"
     /\ pLastOp.op # "initialize"
     /\ initialize
  \/ /\ pLastOp.op = "initialize"
     /\ \E k \in 1..Len(awaiting) : loadState(k, stored)

SyncSpec == Init /\ [][SyncNext]_vars

(***************************************************************************)
(* The content script under the worker's messages and the page's images.   *)
(***************************************************************************)
ContentNext ==
  \/ \E pid \in PromptIds :
       \* the worker sends one SUBMIT_PROMPT per item of a run, and the next item's
       \* after the previous one was answered
       /\ \A k \in 1..Len(monitors) : monitors[k].id # pid
       /\ submitting = {}
       /\ handleSubmitPrompt(pid)
  \/ \E pid \in PromptIds : \E found \in BOOLEAN : submitPrompt(pid, found)
  \/ imageAppears
  \/ \E n \in 1..MaxUrls : checkForNewImages(n)
  \/ imageTimeout
  \/ \E pid \in PromptIds : \E fetched \in BOOLEAN : downloadBlobImage(pid, fetched)
  \/ \E pid \in PromptIds : downloadDataUrl(pid)

ContentSpec == Init /\ [][ContentNext]_vars

(***************************************************************************)
(* The popup under the user's clicks, the clock and the worker's messages. *)
(***************************************************************************)
PopupNext ==
  \/ \E n \in 1..MaxBatch : addPrompts(n)
  \/ \E c \in BOOLEAN : handleRun(c)
  \/ sameProject
  \/ newProject
  \/ newProjectTimeout
  \/ closeModal
  \/ handlePause
  \/ handleStop
  \/ handleClear
  \/ \E pid \in 1..MaxRegistry : \E ci \in 1..MaxRegistry : promptSubmitted(pid, ci)
  \/ \E pid \in 1..MaxRegistry : \E st \in {"completed", "failed"} : promptFinished(pid, st)
  \/ workflowCompletedMessage

PopupSpec == Init /\ [][PopupNext]_vars

(***************************************************************************)
(* The popup's timers: a registry of TimerPrompts items under the clock,   *)
(* the user's clicks and the worker's messages.                            *)
(***************************************************************************)
TimerNext ==
  \/ clockTick
  \/ timerFire
  \/ (pPrompts = <<>> /\ addPrompts(TimerPrompts))
  \/ \E c \in BOOLEAN : handleRun(c)
  \/ sameProject
  \/ handlePause
  \/ handleStop
  \/ handleClear
  \/ \E pid \in 1..TimerPrompts : promptSubmitted(pid, pid)
  \/ \E pid \in 1..TimerPrompts : \E st \in {"completed", "failed"} : promptFinished(pid, st)
  \/ workflowCompletedMessage

TimerSpec == Init /\ [][TimerNext]_vars

(***************************************************************************)
(* Properties of the coordinator's item statuses.                          *)
(***************************************************************************)
StatusRank(s) == IF s = "pending" THEN 0 ELSE IF s = "submitted" THEN 1 ELSE 2

\* a status change that keeps a terminal status and never goes back
ForwardChange(a, b) == a = b \/ (~IsTerminal(a) /\ StatusRank(a) < StatusRank(b))

\* steps that replace the registry: clear-all, start and the popup's update
ResetOps == {"clearAll", "startWorkflow", "updatePrompts"}

SignalOps == {"handleImageGenerated", "downloadComplete", "downloadInterrupted",
              "imageDownloadComplete", "generationFailed"}


AllTerminal(ps) == \A k \in 1..Len(ps) : ps[k].status \in {"completed", "failed"}

\* C1: over ticks, SUBMIT_PROMPT responses and completion/failure signals, no step
\* other than a reset changes an item's status away from completed or failed, or
\* back to an earlier status.
StatusOnlyMovesForward ==
  [][lastOp'.op \notin ResetOps =>
       \A k \in 1..Len(prompts) :
         k <= Len(prompts') => ForwardChange(prompts[k].status, prompts'[k].status)]_vars

\* C2: a GENERATION_FAILED for an item that is already failed changes nothing: the
\* registry (status and error) stays as it is and no PROMPT_FAILED is sent.
SecondFailureIgnored ==
  [][\A pid \in PromptIds : \A err \in Reasons :
       (/\ generationFailed(pid, err)
        /\ FindById(prompts, pid) # 0
        /\ prompts[FindById(prompts, pid)].status = "failed")
       => (prompts' = prompts /\ "PROMPT_FAILED" \notin SentTypes(sent'))]_vars

\* C3: once a success or a failure signal gave an item a terminal status, no later
\* signal for any id changes that item's status.
FirstTerminalSignalWins ==
  [][lastOp'.op \in SignalOps =>
       \A k \in 1..Len(prompts) :
         IsTerminal(prompts[k].status) =>
           (k <= Len(prompts') /\ prompts'[k].status = prompts[k].status)]_vars

\* a suspended SUBMIT_PROMPT whose response has not arrived and whose item has had
\* no terminal signal
Unresolved(f) ==
  /\ ~f.stale
  /\ FindById(prompts, f.id) # 0
  /\ ~IsTerminal(prompts[FindById(prompts, f.id)].status)

\* C4: no step sends a SUBMIT_PROMPT while an earlier SUBMIT_PROMPT is unresolved.
NoSubmitWhileUnresolved ==
  [][Len(inflight') > Len(inflight) =>
       ~\E k \in 1..Len(inflight) : Unresolved(inflight[k])]_vars

\* C5: a step that runs workflowCompleted (it sends WORKFLOW_COMPLETED) starts and
\* ends in a state where every item of the registry is completed or failed.
CompletedOnlyWhenAllTerminal ==
  [][(lastOp'.op \in {"tick", "startWorkflowLoop"}
        /\ "WORKFLOW_COMPLETED" \in SentTypes(sent'))
       => (AllTerminal(prompts) /\ AllTerminal(prompts') /\ ~isRunning')]_vars

\* C5 witness: a timer tick completed a workflow over a registry that holds a
\* completed and a failed item.
CompletedWithTerminalItems ==
  /\ lastOp.op = "tick"
  /\ "WORKFLOW_COMPLETED" \in SentTypes(sent)
  /\ ~isRunning
  /\ \E k \in 1..Len(prompts) : prompts[k].status = "completed"
  /\ \E k \in 1..Len(prompts) : prompts[k].status = "failed"

RunningAllTerminal ==
  isRunning /\ ~isPaused /\ Len(prompts) > 0 /\ AllTerminal(prompts)

\* C6: when the workflow is running and every item is terminal, the workflow
\* eventually completes (isRunning becomes false), unless a command or a new
\* registry ends that situation first.
AllTerminalLeadsToCompleted ==
  RunningAllTerminal ~> (~isRunning \/ ~RunningAllTerminal)

\* C7: a CLEAR_ALL handled while the workflow is running over a non-empty registry
\* leaves the registry, the run flags and the cursor as they are.
ClearAllRejectedWhileRunning ==
  [][(isRunning /\ ~isPaused /\ Len(prompts) > 0 /\ clearAll) =>
       (prompts' = prompts /\ isRunning' = isRunning /\ currentIndex' = currentIndex
          /\ processedPrompts' = processedPrompts)]_vars

\* C9: a dispatch tick (the interval callback, or the immediate call of
\* startWorkflowLoop) that starts while the workflow is not running sends no
\* SUBMIT_PROMPT and no WORKFLOW_COMPLETED and changes no item, flag, cursor or
\* processed id.
TickWhileNotRunningIsNoOp ==
  [][(lastOp'.op \in {"tick", "startWorkflowLoop"} /\ ~(isRunning /\ ~isPaused))
       => /\ sent' = <<>>
          /\ inflight' = inflight
          /\ prompts' = prompts
          /\ currentIndex' = currentIndex
          /\ processedPrompts' = processedPrompts
          /\ isRunning' = isRunning
          /\ isPaused' = isPaused]_vars

\* C9 witness: the interval fired while the workflow was paused with a pending item
\* ready for dispatch, and did nothing.
TickedWhilePaused ==
  /\ lastOp.op = "tick"
  /\ isPaused
  /\ ~isRunning
  /\ sent = <<>>
  /\ inflight = <<>>
  /\ FindPendingIndex(prompts, currentIndex, processedPrompts) # -1

(***************************************************************************)
(* Properties of the dispatch order.                                       *)
(***************************************************************************)
\* the SUBMIT_PROMPT a step suspended, when it suspended one
Dispatches == Len(inflight') > Len(inflight)
NewSubmit == inflight'[Len(inflight')]

\* C11: a step that sends SUBMIT_PROMPT for the item at an index finds every item
\* at a lower index already marked submitted by this run (its id is in
\* processedPrompts), and never selects an index below the cursor.
DispatchedInOrderAfterSubmitted ==
  [][Dispatches =>
       /\ NewSubmit.idx >= currentIndex
       /\ \A j \in 1..NewSubmit.idx : prompts[j].id \in processedPrompts]_vars

\* C12: after the send of SUBMIT_PROMPT for an item was rejected, the next timer
\* tick of the run does not send SUBMIT_PROMPT for that item again.
NoRetryAfterRejectedSend ==
  [][(lastOp.op = "submitRejected" /\ lastOp'.op = "tick" /\ Dispatches)
       => NewSubmit.id # lastOp.id]_vars

\* C20: a step that sends SUBMIT_PROMPT selects the lowest index at or after
\* currentIndex whose item is pending with an id outside processedPrompts; and when
\* the send resolves, the id is in processedPrompts, the item of that id in the
\* registry is submitted, and PROMPT_SUBMITTED carries the selected index + 1.
SelectsFirstUnprocessedAndSubmits ==
  [][/\ Dispatches =>
          LET p == NewSubmit.idx IN
          /\ p >= currentIndex
          /\ currentIndex' = p
          /\ NewSubmit.id = prompts[p + 1].id
          /\ prompts[p + 1].status = "pending"
          /\ prompts[p + 1].id \notin processedPrompts
          /\ \A j \in currentIndex..(p - 1) :
               ~(prompts[j + 1].status = "pending"
                   /\ prompts[j + 1].id \notin processedPrompts)
     /\ (lastOp'.op = "submitResolved" /\ Len(inflight') < Len(inflight)) =>
          /\ lastOp'.id \in processedPrompts'
          /\ FindById(prompts', lastOp'.id) # 0
               => prompts'[FindById(prompts', lastOp'.id)].status = "submitted"
          /\ \E k \in 1..Len(inflight) :
               /\ inflight[k].id = lastOp'.id
               /\ inflight' = RemoveAt(inflight, k)
               /\ sent' = <<Msg("PROMPT_SUBMITTED", lastOp'.id, inflight[k].idx + 1,
                                NoError)>>]_vars

(***************************************************************************)
(* Properties of the signals that arrive after a pause or a stop.          *)
(***************************************************************************)
\* C14: while the workflow is not running (paused or stopped), a GENERATION_FAILED
\* for an item of the registry sets the item to failed with the reason and sends
\* PROMPT_FAILED, and the download completion that reaches the expected total sets
\* the item to completed and sends PROMPT_COMPLETED.
SignalsAppliedWhenNotRunning ==
  [][~isRunning =>
       /\ \A pid \in PromptIds : \A err \in Reasons :
            (generationFailed(pid, err) /\ FindById(prompts, pid) # 0) =>
              /\ prompts'[FindById(prompts, pid)].status = "failed"
              /\ prompts'[FindById(prompts, pid)].error = err
              /\ sent' = <<Msg("PROMPT_FAILED", pid, 0, err)>>
       /\ \A pid \in PromptIds :
            (/\ downloadComplete(pid)
             /\ FindById(prompts, pid) # 0
             /\ pid \in DOMAIN pendingDownloads
             /\ pendingDownloads[pid].completed + 1 >= pendingDownloads[pid].total) =>
              /\ prompts'[FindById(prompts, pid)].status = "completed"
              /\ sent' = <<Msg("PROMPT_COMPLETED", pid, 0, NoError)>>]_vars

\* C14 witness: after a pause, a failure signal for the dispatched item was applied.
FailedAfterPause ==
  /\ isPaused
  /\ ~isRunning
  /\ lastOp.op = "generationFailed"
  /\ \E k \in 1..Len(prompts) :
       /\ prompts[k].id = lastOp.id
       /\ prompts[k].status = "failed"
       /\ prompts[k].error \in Reasons
  /\ "PROMPT_FAILED" \in SentTypes(sent)

(***************************************************************************)
(* Properties of the downloads.                                            *)
(***************************************************************************)
\* C13: while an IMAGE_GENERATED with k >= 1 urls is outstanding for an item (its
\* pendingDownloads entry exists), the item becomes completed only in the step that
\* confirms the k-th download; that step removes the entry and sends
\* PROMPT_COMPLETED.
CompletedExactlyAtTotal ==
  [][\A k \in 1..Len(prompts) :
       (/\ k <= Len(prompts')
        /\ prompts[k].id \in DOMAIN pendingDownloads
        /\ prompts[k].status # "completed"
        /\ prompts'[k].status = "completed") =>
         /\ pendingDownloads[prompts[k].id].completed + 1
              >= pendingDownloads[prompts[k].id].total
         /\ prompts[k].id \notin DOMAIN pendingDownloads'
         /\ sent' = <<Msg("PROMPT_COMPLETED", prompts[k].id, 0, NoError)>>]_vars

\* the download calls of one IMAGE_GENERATED message
DownloadTypes == {"DOWNLOAD_BLOB", "DOWNLOAD"}
RequestsDownloads ==
  /\ lastOp'.op = "handleImageGenerated"
  /\ Len(sent') > 0
  /\ sent'[1].type \in DownloadTypes

\* C19: an IMAGE_GENERATED message for a known prompt with k urls requests k
\* downloads, the n-th (n = 1..k, in url order) under the name
\* '{folder}/Scene {promptId} Image {n}.png', where folder is the downloadFolder
\* setting, or 'FlowGenerations' when that setting is empty; the names of one
\* message are pairwise different.
FilenamesFollowConvention ==
  [][RequestsDownloads =>
       /\ Len(sent') = pendingDownloads'[lastOp'.id].total
       /\ \A n \in 1..Len(sent') :
            /\ sent'[n].type \in DownloadTypes
            /\ sent'[n].file =
                 <<IF downloadFolder = "" THEN "FlowGenerations" ELSE downloadFolder,
                   "Scene", lastOp'.id, "Image", n>>
       /\ \A n, m \in 1..Len(sent') : n # m => sent'[n].file # sent'[m].file]_vars

\* C19 as stated: the folder part of every requested name is the downloadFolder
\* setting itself.
FilenamesUseFolderSetting ==
  [][RequestsDownloads =>
       \A n \in 1..Len(sent') :
         sent'[n].file = <<downloadFolder, "Scene", lastOp'.id, "Image", n>>]_vars

\* C19 witness: a message with the largest number of urls was handled while the
\* downloadFolder setting was empty.
FullMessageNamedByDefault ==
  /\ lastOp.op = "handleImageGenerated"
  /\ Len(sent) = MaxUrls
  /\ sent[1].type \in DownloadTypes
  /\ downloadFolder = ""
  /\ sent[MaxUrls].file[1] = "FlowGenerations"

\* C15: a loadState that finds a stored state leaves the worker not running and
\* not paused, whatever flags were stored, and no loadState turns a flag on; the
\* worker starts running only by START_WORKFLOW or RESUME_WORKFLOW, and a prompt is
\* dispatched only by a step that begins running and not paused.
NoDispatchAfterReloadUntilStart ==
  [][/\ (lastOp'.op = "loadState" /\ processedPrompts' = PlainObject)
          => (~isRunning' /\ ~isPaused')
     /\ lastOp'.op = "loadState"
          => ((isRunning' => isRunning) /\ (isPaused' => isPaused) /\ ~Dispatches)
     /\ (~isRunning /\ isRunning')
          => lastOp'.op \in {"startWorkflow", "resumeWorkflow"}
     /\ Dispatches => (isRunning /\ ~isPaused)]_vars

\* C15 witness: loadState brought back a registry with a pending item while a
\* START_WORKFLOW was waiting for its tab query; the worker is not running.
ReloadedWithPendingItem ==
  /\ lastOp.op = "loadState"
  /\ processedPrompts = PlainObject
  /\ awaiting = <<"start">>
  /\ \E k \in 1..Len(prompts) : prompts[k].status = "pending"
  /\ ~isRunning
  /\ ~isPaused

(***************************************************************************)
(* Properties of the popup.                                                *)
(***************************************************************************)
\* C8: a pause sets elapsedSeconds to the elapsed time shown by updateTimers at that
\* moment, nothing changes it while paused, and right after the resume the elapsed
\* time computed and shown by updateTimers is that value again.
ElapsedContinuesAfterResume ==
  [][/\ (wfStatus = "running" /\ wfStatus' = "paused")
          => elapsedSeconds' = ElapsedAt(now, startTime)
     /\ (wfStatus = "paused" /\ wfStatus' = "paused")
          => elapsedSeconds' = elapsedSeconds
     /\ (wfStatus = "paused" /\ wfStatus' = "running")
          => /\ elapsedSeconds' = elapsedSeconds
             /\ ElapsedAt(now', startTime') = elapsedSeconds
             /\ elapsedShown' = formatTime(elapsedSeconds)]_vars

\* C8 witness: a workflow paused after at least a second was resumed after a wait
\* of at least a second.
ResumedAfterWait ==
  /\ pLastOp.op = "resumeWorkflow"
  /\ pLastOp.id >= MsPerSecond
  /\ wfStatus = "running"
  /\ elapsedSeconds >= 1
  /\ ElapsedAt(now, startTime) = elapsedSeconds

MaxId(ps) ==
  IF Len(ps) = 0 THEN 0
  ELSE CHOOSE m \in {ps[k].id : k \in 1..Len(ps)} : \A k \in 1..Len(ps) : ps[k].id <= m

\* C10: the ids of the popup's registry are strictly increasing in list order, and
\* an addPrompts keeps the items it finds and appends items that are pending and
\* numbered on from the largest id.
IdsIncreaseAndContinue ==
  /\ [](\A i \in 1..Len(pPrompts) : \A j \in 1..Len(pPrompts) :
          i < j => pPrompts[i].id < pPrompts[j].id)
  /\ [][pLastOp'.op = "addPrompts" =>
          /\ Len(pPrompts') = Len(pPrompts) + pLastOp'.id
          /\ \A k \in 1..Len(pPrompts) : pPrompts'[k] = pPrompts[k]
          /\ \A k \in (Len(pPrompts) + 1)..Len(pPrompts') :
               /\ pPrompts'[k].status = "pending"
               /\ pPrompts'[k].id = MaxId(pPrompts) + (k - Len(pPrompts))]_vars

\* C10 witness: a second batch was appended to a registry whose earlier items were
\* already worked on.
SecondBatchAppended ==
  /\ pLastOp.op = "addPrompts"
  /\ pLastOp.id < Len(pPrompts)
  /\ Len(pPrompts) = MaxRegistry
  /\ pPrompts[1].status = "completed"
  /\ pPrompts[Len(pPrompts)].status = "pending"
  /\ pPrompts[Len(pPrompts)].id = MaxRegistry

\* no item of the popup's registry goes back in status in this step
NoItemRegresses ==
  \A k \in 1..Len(pPrompts) :
    /\ k <= Len(pPrompts')
    /\ pPrompts'[k].id = pPrompts[k].id
    /\ StatusRank(pPrompts'[k].status) >= StatusRank(pPrompts[k].status)

\* C16: across a step that begins and ends with the popup's status running and in
\* which no item's status goes back, the percentage updateProgressBar computes
\* from the registry does not go down.
ProgressNeverDropsWhileRunning ==
  [][(wfStatus = "running" /\ wfStatus' = "running" /\ NoItemRegresses)
       => updateProgressBar(pPrompts') >= updateProgressBar(pPrompts)]_vars

\* C17: when the 120 s wait of a submitted prompt ends and no image was detected
\* for it, the content script sends GENERATION_FAILED for that prompt id.
TimeoutWithoutImagesReportsFailure ==
  [][(cLastOp'.op = "imageTimeout" /\ Head(monitors).images = 0)
       => cSent' = <<Msg("GENERATION_FAILED", Head(monitors).id, 0, TimeoutError)>>]_vars

\* C18: a failed operation of the content script, the submission of a prompt in the
\* page or the download of a blob image, sends a message to the background.
EveryPageFailureIsReported ==
  [][cLastOp'.op \in {"submitFailed", "downloadBlobFailed"} => Len(cSent') > 0]_vars

(***************************************************************************)
(* Properties of one run of the worker.                                    *)
(***************************************************************************)
\* C21: in a run, a step that sends SUBMIT_PROMPT for an item finds no SUBMIT_PROMPT
\* for the same id still awaiting its answer, and the id is not among those already
\* answered (processedPrompts).
SubmitSentOncePerItem ==
  [][Dispatches =>
       /\ NewSubmit.id \notin processedPrompts
       /\ \A k \in 1..Len(inflight) : inflight[k].id # NewSubmit.id]_vars

\* C22: after every step of the popup, the id the next addPrompts would assign is
\* larger than every id the registry held before the step and holds after it, so
\* that no id is assigned a second time.
IdsNeverReused ==
  [][LET next == NewPromptId(Len(pPrompts'), 0) IN
       /\ next > MaxId(pPrompts)
       /\ next > MaxId(pPrompts')]_vars

\* the popup handlers that run updateTimers with a start time set
TimerOps == {"initiateWorkflow", "resumeWorkflow", "updateTimers"}
ShowsRemaining == pLastOp'.op \in TimerOps /\ startTime' # NoStartTime

\* C23: the remaining time updateTimers shows is the number of items whose status
\* is pending, multiplied by the 2 seconds of the interval setting; items that are
\* submitted count as processed.
RemainingCountsPendingItems ==
  [][ShowsRemaining =>
       remainingShown' =
         formatTime(Cardinality({k \in 1..Len(pPrompts') :
                                   pPrompts'[k].status = "pending"}) * 2)]_vars

\* C23 as stated: the remaining time shown is the number of items that are pending
\* or submitted, multiplied by the interval.
RemainingCountsNonTerminalItems ==
  [][ShowsRemaining =>
       remainingShown' =
         formatTime(Cardinality({k \in 1..Len(pPrompts') :
                                   pPrompts'[k].status \in {"pending", "submitted"}}) * 2)]_vars

\* C23 witness: the workflow was resumed with one item completed, one submitted and
\* one pending, and the time of one interval is shown.
RemainingShownForMixedRegistry ==
  /\ pLastOp.op = "resumeWorkflow"
  /\ Len(pPrompts) = MaxRegistry
  /\ \E k \in 1..Len(pPrompts) : pPrompts[k].status = "completed"
  /\ \E k \in 1..Len(pPrompts) : pPrompts[k].status = "submitted"
  /\ \E k \in 1..Len(pPrompts) : pPrompts[k].status = "pending"
  /\ remainingShown = <<0, 0, 2>>

\* the steps that begin or end a run, or reload the worker
RunBoundaryOps == {"startWorkflow", "clearAll", "loadState"}

\* C24: a START_WORKFLOW leaves in processedPrompts the id of every item below the
\* start index and of every item already completed or failed; within the run
\* processedPrompts only grows and no step sends SUBMIT_PROMPT for an id in it; and
\* startWorkflowLoop itself, with the worker running and an item to select, sends
\* the first SUBMIT_PROMPT.
StartSkipsProcessedAndDispatchesAtOnce ==
  [][/\ lastOp'.op = "startWorkflow" =>
          \A k \in 1..Len(prompts') :
            ((k - 1) < currentIndex' \/ prompts'[k].status \in {"completed", "failed"})
              => prompts'[k].id \in processedPrompts'
     /\ lastOp'.op \notin RunBoundaryOps => processedPrompts \subseteq processedPrompts'
     /\ Dispatches =>
          /\ NewSubmit.id \notin processedPrompts
          /\ prompts[NewSubmit.idx + 1].status = "pending"
     /\ (/\ lastOp'.op = "startWorkflowLoop"
         /\ isRunning /\ ~isPaused
         /\ \E k \in 1..Len(prompts) :
              /\ (k - 1) >= currentIndex
              /\ prompts[k].status = "pending"
              /\ prompts[k].id \notin processedPrompts)
          => Dispatches]_vars

\* C24 witness: a run started at index 1 with item 1 still pending; startWorkflowLoop
\* sent the first SUBMIT_PROMPT for item 2.
StartedPastPendingItem ==
  /\ lastOp.op = "startWorkflowLoop"
  /\ Len(prompts) = 2
  /\ prompts[1].status = "pending"
  /\ prompts[1].id \in processedPrompts
  /\ Len(inflight) = 1
  /\ inflight[1].idx = 1
  /\ ~inflight[1].stale

\* C25: a RESUME_WORKFLOW changes nothing but currentIndex and the run flags, which
\* it sets to running and not paused; and when its awaits are over the interval
\* timer is armed.
ResumeKeepsProgressAndRearmsTimer ==
  [][/\ lastOp'.op = "resumeWorkflow" =>
          /\ isRunning' /\ ~isPaused'
          /\ UNCHANGED <<prompts, downloadFolder, processedPrompts, pendingDownloads>>
     /\ (Len(prompts) > 0 /\ awaiting = <<"resume">> /\ awaiting' = <<>>)
          => workflowInterval']_vars

\* C26: a PAUSE_WORKFLOW or STOP_WORKFLOW leaves no interval timer armed and keeps
\* the items, their statuses, currentIndex, processedPrompts and pendingDownloads;
\* the pause leaves the worker paused and not running, the stop neither.
PauseAndStopDisarmAndKeepProgress ==
  [][/\ lastOp'.op \in {"pauseWorkflow", "stopWorkflow"} =>
          /\ ~workflowInterval'
          /\ ~isRunning'
          /\ UNCHANGED <<prompts, currentIndex, processedPrompts, pendingDownloads>>
     /\ lastOp'.op = "pauseWorkflow" => isPaused'
     /\ lastOp'.op = "stopWorkflow" => ~isPaused']_vars

\* C26 witness: the worker was paused in a run that had submitted its first item
\* and had a SUBMIT_PROMPT awaiting its answer.
PausedWithProgress ==
  /\ lastOp.op = "pauseWorkflow"
  /\ ~workflowInterval
  /\ isPaused
  /\ processedPrompts # {}
  /\ \E k \in 1..Len(prompts) : prompts[k].status = "submitted"
  /\ Len(inflight) > 0

\* C27: a stop issued while the popup is paused leaves elapsedSeconds at the value
\* the pause recorded, so that the time spent paused is not counted.
StopWhilePausedKeepsElapsed ==
  [][(pLastOp'.op = "handleStop" /\ wfStatus = "paused")
       => elapsedSeconds' = elapsedSeconds]_vars

(***************************************************************************)
(* Properties of the downloads of an item.                                 *)
(***************************************************************************)
\* item pid waits for more confirmations than it has browser downloads running: a
\* download of its images was interrupted, did not start, or went to the page
Shortfall(pid) ==
  /\ pid \in DOMAIN pendingDownloads
  /\ pendingDownloads[pid].total - pendingDownloads[pid].completed > downloads[pid]

SetAgrees(saved, mem) == IF saved = PlainObject THEN mem = {} ELSE saved = mem
MapAgrees(saved, mem) == IF saved = PlainMap THEN DOMAIN mem = {} ELSE saved = mem

\* C29: after every handler of the worker, a workflowState has been saved and it
\* agrees with the one in memory on the items and their statuses, currentIndex, the
\* run flags, the settings, processedPrompts and pendingDownloads.
SavedStateAgreesWithMemory ==
  lastOp.op # "init" =>
    /\ stored.stored
    /\ stored.prompts = prompts
    /\ stored.currentIndex = currentIndex
    /\ stored.isRunning = isRunning
    /\ stored.isPaused = isPaused
    /\ stored.downloadFolder = downloadFolder
    /\ SetAgrees(stored.processedPrompts, processedPrompts)
    /\ MapAgrees(stored.pendingDownloads, pendingDownloads)

(***************************************************************************)
(* Properties of the dispatch cursor.                                      *)
(***************************************************************************)
\* the worker is running: isRunning is set and isPaused is not
Running == isRunning /\ ~isPaused

\* C30: while the worker is running, no handler and no dispatch tick sets
\* currentIndex to a smaller value than it had: over every step that starts and ends
\* in a running state, currentIndex does not decrease.
CurrentIndexNeverDecreasesWhileRunning ==
  [][(Running /\ Running') => currentIndex' >= currentIndex]_vars

(***************************************************************************)
(* Properties of a restart of the browser.                                 *)
(***************************************************************************)
\* the first pending item at or after currentIndex, 0 if there is none
FirstPendingFrom(ps, cur) ==
  IF \E k \in 1..Len(ps) : k - 1 >= cur /\ ps[k].status = "pending"
    THEN CHOOSE k \in 1..Len(ps) :
           /\ k - 1 >= cur /\ ps[k].status = "pending"
           /\ \A j \in 1..(k - 1) : ~(j - 1 >= cur /\ ps[j].status = "pending")
    ELSE 0

\* C31: a loadState after a restart brings back the saved items with their
\* statuses and the saved currentIndex, and processedPrompts and pendingDownloads
\* are again collections of item ids; the RESUME_WORKFLOW that follows dispatches
\* the first pending item at or after currentIndex.
ProgressSurvivesRestart ==
  [][/\ (lastOp'.op = "loadState" /\ stored.stored)
          => /\ prompts' = stored.prompts
             /\ currentIndex' = stored.currentIndex
             /\ processedPrompts' \subseteq PromptIds
             /\ DOMAIN pendingDownloads' \subseteq PromptIds
     /\ (/\ lastOp.op = "resumeWorkflow"
         /\ lastOp'.op = "startWorkflowLoop"
         /\ \A k \in 1..Len(prompts) : prompts[k].status = "pending"
                                         => prompts[k].id \notin processedPrompts
         /\ FirstPendingFrom(prompts, currentIndex) # 0)
          => /\ Dispatches
             /\ NewSubmit.id = prompts[FirstPendingFrom(prompts, currentIndex)].id]_vars

(***************************************************************************)
(* Properties of the worker and the content script together.               *)
(***************************************************************************)
\* C32: every item the worker has marked submitted eventually reaches completed or
\* failed, when timers fire, messages are delivered and started downloads finish.
SubmittedItemsReachTerminal ==
  \A pid \in PromptIds : (StatusOf(pid) = "submitted") ~> IsTerminal(StatusOf(pid))

(***************************************************************************)
(* Properties of the image detection in the page.                          *)
(***************************************************************************)
\* C33: the imageUrls of an IMAGE_GENERATED message hold every url detected for the
\* prompt since its submission, hence at least the expected count of urls, whether
\* the images appeared in one check or across several.
ImageUrlsHoldAllDetected ==
  [][(cLastOp'.op = "checkForNewImages" /\ cSent' # <<>>)
       => /\ cSent'[1].type = "IMAGE_GENERATED"
          /\ cSent'[1].idx = detectedImages'
          /\ cSent'[1].idx >= ExpectedCount]_vars

\* C34: an image that the page already showed when SUBMIT_PROMPT was handled is
\* never counted toward the prompt's expected count and never sent in its
\* IMAGE_GENERATED urls: only the images that appeared since are detected.
OldImagesNeverCounted ==
  [][cLastOp'.op = "checkForNewImages"
       => /\ detectedImages' <= pageImages' - lastImageCount'
          /\ (cSent' # <<>> => cSent'[1].idx <= pageImages' - lastImageCount')]_vars

\* C35: for each SUBMIT_PROMPT it handles the content script sends at most one of
\* IMAGE_GENERATED and GENERATION_FAILED for the prompt, and a handler that sends one
\* leaves currentPrompt null.
OneTerminalNotificationPerSubmit ==
  [][/\ \A pid \in PromptIds : notified'[pid] <= 1
     /\ (notified' # notified /\ cSent' # <<>>) => currentPrompt' = 0]_vars

(***************************************************************************)
(* Properties of the dispatch timer.                                       *)
(***************************************************************************)
\* C36: whenever no handler of the worker is suspended in an await, the dispatch
\* timer is armed exactly when the worker is running (isRunning and not isPaused).
TimerArmedExactlyWhenRunning ==
  (awaiting = <<>> /\ inflight = <<>>) => (workflowInterval <=> (isRunning /\ ~isPaused))

(***************************************************************************)
(* Properties of the blob downloads.                                       *)
(***************************************************************************)
\* C37: when IMAGE_GENERATED reported blob: urls and the page has sent a
\* DOWNLOAD_DATA_URL for each of them, the worker has counted each as a confirmed
\* download, and the item eventually becomes completed.
BlobDownloadsCompleteTheItem ==
  \A pid \in PromptIds :
    (/\ pid \in DOMAIN pendingDownloads
     /\ blobsHandled[pid] = pendingDownloads[pid].total
     /\ cSent = <<>>)
      ~> (StatusOf(pid) = "completed")

(***************************************************************************)
(* Properties of the popup and the worker together.                        *)
(***************************************************************************)
\* every message sent is delivered and answered and no handler is suspended
AllDelivered ==
  /\ pSent = <<>>
  /\ awaiting = <<>>
  /\ inflight = <<>>
  /\ ~NotePending
  /\ "WORKFLOW_COMPLETED" \notin SentTypes(sent)
  /\ lastOp.op # "restart"

\* C38: once every message in flight is delivered, the popup's workflow.status
\* is running exactly when the worker has isRunning true and isPaused false.
PopupStatusAgreesWithWorker ==
  AllDelivered => ((wfStatus = "running") <=> (isRunning /\ ~isPaused))

\* a popup message is handled once: when it is sent, the worker's last step is not
\* a handling of the same type
ControlHandledOnce ==
  [][(pSent' # <<>> /\ pSent' # pSent) => lastOp.op # HandlerOf(pSent'[1].type)]_vars

(***************************************************************************)
(* Properties of a workflow started past the head of its registry.         *)
(***************************************************************************)
\* C39: a workflow started with fromIndex > 0 eventually completes once every item
\* at or after fromIndex is terminal, whatever the statuses of the items before it.
\* Here fromIndex is the index of the last item.
StartedFromIndexCompletes ==
  (/\ lastOp.op # "init"
   /\ awaiting = <<>>
   /\ inflight = <<>>
   /\ IsTerminal(prompts[Len(prompts)].status))
    ~> ~isRunning

(***************************************************************************)
(* Properties of a registry update during a send.                          *)
(***************************************************************************)
\* C40: when an UPDATE_PROMPTS was handled while a SUBMIT_PROMPT send awaited its
\* response, then after the response the dispatched item is submitted in the
\* registry, and no item is pending while its id is in processedPrompts.
UpdateDuringSendKeepsSubmitted ==
  [][(/\ lastOp'.op = "submitResolved"
      /\ \E k \in 1..Len(inflight) : inflight[k].id = lastOp'.id /\ inflight[k].stale
      /\ \E j \in 1..Len(prompts) :
           prompts[j].id = lastOp'.id /\ prompts[j].status = "pending")
       => (/\ \A j \in 1..Len(prompts') :
                prompts'[j].id = lastOp'.id => prompts'[j].status = "submitted"
           /\ \A j \in 1..Len(prompts') :
                ~(prompts'[j].status = "pending"
                    /\ prompts'[j].id \in processedPrompts'))]_vars

====
